---------------------------- MODULE Spec2Model ----------------------------
(***************************************************************************)
(* A model of MemeGen: the posts store with its ingestion and batch        *)
(* analysis handlers, the generate handler (image-first and text-only      *)
(* paths) and the trend aggregator.                                        *)
(*                                                                         *)
(* Conventions.  A nullable or possibly-absent value is None (<<>>) or     *)
(* Some(v) (<<v>>).  Free text that the code inspects character by         *)
(* character (topics, model responses) is a sequence of one-character      *)
(* strings or of lexical tokens; text that is only stored and compared is  *)
(* an atom.  A collaborator call (store, model) has an outcome drawn       *)
(* nondeterministically: it returns, returns an error result, or throws.   *)
(***************************************************************************)
EXTENDS Integers, Sequences, FiniteSets, TLC

VARIABLES
    memes,            \* the posts table ("memes"), rows in insertion order
    generated_memes,  \* the generated_memes table, rows in insertion order
    style_guides,     \* the style_guides table, rows in insertion order
    clock,            \* logical time, the source of every timestamp
    calls,            \* the model calls issued by the handler that ran last
    topicMap,         \* the trend aggregator's buckets, in insertion order
    failed,           \* the collaborator call that failed in the generate or
                      \* style-guide request that ran last
    inflight,         \* the batch analysis in progress, when its steps are
                      \* interleaved with other requests
    env,              \* AUTH_PASSWORD and AUTH_PASSWORD_2 of the deployment
    session,          \* the user of the browser's session, if signed in
    request,          \* the body of the generate request that ran last
    returned,         \* what the model calls of the generate request that ran
                      \* last returned: the selection and the generated text
    resp              \* the response of the handler that ran last

vars ==
    <<memes, generated_memes, style_guides, clock, calls, topicMap, failed, inflight, env, session,
      request, returned, resp>>

(***************************************************************************)
(* Bounds of the model.                                                    *)
(***************************************************************************)
MaxClock == 3

(***************************************************************************)
(* Generic helpers.                                                        *)
(***************************************************************************)
None == <<>>
Some(v) == <<v>>

Min(a, b) == IF a <= b THEN a ELSE b
Max(a, b) == IF a >= b THEN a ELSE b

Range(s) == {s[i] : i \in 1..Len(s)}

RECURSIVE SeqsUpTo(_, _)
\* Every sequence over S of length at most n.
SeqsUpTo(S, n) ==
    IF n = 0 THEN {<<>>}
    ELSE LET shorter == SeqsUpTo(S, n - 1)
         IN  shorter \cup {Append(s, x) : s \in {t \in shorter : Len(t) = n - 1}, x \in S}

\* JavaScript truthiness of a possibly-absent string atom and number.
TruthyStr(o) == o # None /\ o[1] # ""
TruthyNum(o) == o # None /\ o[1] # 0
\* `x || d`
OrElse(o, d) == IF o # None /\ o[1] # "" THEN o[1] ELSE d
OrElseNum(o, d) == IF TruthyNum(o) THEN o[1] ELSE d
\* `x || null`
OrNull(o) == IF TruthyStr(o) THEN o ELSE None

(***************************************************************************)
(* The posts table.                                                        *)
(***************************************************************************)
AnalysisColumns ==
    {"topics", "humor_type", "format", "template", "joke_structure", "tone",
     "image_analysis", "searchable_text", "analyzed_at"}

OriginColumns == {"url", "text", "images", "author", "platform"}

CounterColumns == {"likes", "retweets", "views", "comments", "bookmarks"}

Columns ==
    {"id", "collected_at"} \cup OriginColumns \cup CounterColumns \cup AnalysisColumns

\* A fresh row: the store assigns the id, every other column is unset.
NewRow(id) == [c \in Columns |-> IF c = "id" THEN Some(id) ELSE None]

\* The row written over `row` by a payload that names some of the columns.
Merge(payload, row) ==
    [c \in Columns |-> IF c \in DOMAIN payload THEN payload[c] ELSE row[c]]

UpsertAlwaysInserts(table, payload) ==
    Append(table, Merge(payload, NewRow(Len(table) + 1)))

\* An upsert that replaces the row it finds by a row of the payload alone.
UpsertReplacingRow(table, payload) ==
    IF \E i \in 1..Len(table) : table[i].url = payload.url
    THEN LET i == CHOOSE j \in 1..Len(table) : table[j].url = payload.url
         IN  [table EXCEPT ![i] = Merge(payload, NewRow(i))]
    ELSE Append(table, Merge(payload, NewRow(Len(table) + 1)))

\* supabase.from("memes").upsert(payload, {onConflict: "url"}): the row with
\* the payload's url takes the payload's columns and keeps the others; with no
\* such row a new one is inserted.
Upsert(table, payload) ==
    IF \E i \in 1..Len(table) : table[i].url = payload.url
    THEN LET i == CHOOSE j \in 1..Len(table) : table[j].url = payload.url
         IN  [table EXCEPT ![i] = Merge(payload, @)]
    ELSE Append(table, Merge(payload, NewRow(Len(table) + 1)))

\* The row the upsert's .select().single() returns.
RowByUrl(table, url) ==
    table[CHOOSE i \in 1..Len(table) : table[i].url = url]

\* An update without the filter on id.
UpdateEveryRow(table, id, payload) ==
    [i \in 1..Len(table) |-> Merge(payload, table[i])]

\* supabase.from("memes").update(payload).eq("id", id)
UpdateById(table, id, payload) ==
    [i \in 1..Len(table) |->
        IF table[i].id = Some(id) THEN Merge(payload, table[i]) ELSE table[i]]

StoreOutcomes == {"ok", "error", "throw"}

(***************************************************************************)
(* Ingestion: POST /api/memes.                                             *)
(***************************************************************************)
\* Number.MAX_SAFE_INTEGER is 2^53 - 1; the model's integers end at 2^31 - 1
\* and no metric drawn here comes near either.
MAX_SAFE_INTEGER == 2147483647 + 0

\* safeMetric: Number(val) || 0, clamped to [0, MAX_SAFE_INTEGER].
safeMetric(val) ==
    LET n == IF val = None THEN 0 ELSE val[1]
    IN  Min(Max(n, 0), MAX_SAFE_INTEGER)

Urls == {"u1", "u2"}

\* The request bodies the extension sends: three per url, and one with
\* no url.  Variant 1 and 2 differ in every field; variant 3 leaves the optional
\* fields out and carries a negative counter.
Body(url, variant) ==
    CASE variant = 1 ->
           [url |-> url, text |-> Some("t1"), images |-> Some(<<"img1">>),
            author |-> Some("a1"), platform |-> Some("twitter"),
            likes |-> Some(10), retweets |-> Some(1), views |-> Some(100),
            comments |-> Some(2), bookmarks |-> Some(3)]
      [] variant = 2 ->
           [url |-> url, text |-> Some("t2"), images |-> Some(<<"img2", "img3">>),
            author |-> Some("a2"), platform |-> Some("linkedin"),
            likes |-> Some(20), retweets |-> Some(5), views |-> Some(200),
            comments |-> Some(4), bookmarks |-> Some(6)]
      [] OTHER ->
           [url |-> url, text |-> Some(""), images |-> None,
            author |-> None, platform |-> None,
            likes |-> Some(-5), retweets |-> None, views |-> None,
            comments |-> None, bookmarks |-> None]

Bodies ==
    {Body(Some(u), v) : u \in Urls, v \in 1..3} \cup {Body(None, 1), Body(Some(""), 2)}

\* The upsert payload of src/app/api/memes/route.ts.
IngestPayload(body, now) ==
    [url |-> body.url,
     text |-> OrNull(body.text),
     images |-> Some(IF body.images = None THEN <<>> ELSE body.images[1]),
     author |-> OrNull(body.author),
     platform |-> Some(OrElse(body.platform, "twitter")),
     likes |-> Some(safeMetric(body.likes)),
     retweets |-> Some(safeMetric(body.retweets)),
     views |-> Some(safeMetric(body.views)),
     comments |-> Some(safeMetric(body.comments)),
     bookmarks |-> Some(safeMetric(body.bookmarks)),
     collected_at |-> Some(now)]

\* The upsert payload of the other ingestion handler, which neither clamps
\* the counters nor writes views, comments and bookmarks.
CollectPayload(body, now) ==
    [url |-> body.url,
     text |-> OrNull(body.text),
     images |-> Some(IF body.images = None THEN <<>> ELSE body.images[1]),
     author |-> OrNull(body.author),
     platform |-> Some(OrElse(body.platform, "twitter")),
     likes |-> Some(OrElseNum(body.likes, 0)),
     retweets |-> Some(OrElseNum(body.retweets, 0)),
     collected_at |-> Some(now)]

\* The part common to both ingestion handlers: validate, upsert, respond.
IngestWith(route, payload, body, store, extra) ==
    /\ clock < MaxClock
    /\ clock' = clock + 1
    /\ calls' = <<>>
    /\ UNCHANGED <<generated_memes, style_guides, topicMap, failed, inflight, env, session, request,
                 returned>>
    /\ IF ~TruthyStr(body.url)
       THEN /\ resp' = [route |-> route, status |-> 400, success |-> FALSE,
                        error |-> "URL is required"]
            /\ UNCHANGED memes
       ELSE CASE store = "ok" ->
                   /\ memes' = Upsert(memes, payload)
                   /\ resp' = [route |-> route, status |-> 200, success |-> TRUE,
                               meme |-> RowByUrl(memes', body.url),
                               body |-> body, notionSync |-> extra]
              [] store = "error" ->
                   /\ resp' = [route |-> route, status |-> 500, success |-> FALSE,
                               error |-> "store error message"]
                   /\ UNCHANGED memes
              [] OTHER ->
                   /\ resp' = [route |-> route, status |-> 500, success |-> FALSE,
                               error |-> "Failed to collect meme"]
                   /\ UNCHANGED memes

\* POST of src/app/api/memes/route.ts; the Notion sync that follows the
\* upsert touches no table and only labels the response.
IngestPOST ==
    \E body \in Bodies, store \in StoreOutcomes, notion \in {"success", "error"} :
        IngestWith("memes", IngestPayload(body, clock + 1), body, store, notion)

\* POST of the second ingestion handler.
CollectPOST ==
    \E body \in Bodies, store \in StoreOutcomes :
        IngestWith("collect", CollectPayload(body, clock + 1), body, store, "none")

(***************************************************************************)
(* Batch analysis: POST /api/analyze.                                      *)
(***************************************************************************)
TopicAI == <<"A", "I">>
TopicAiLower == <<"a", "i">>
TopicAiPadded == <<" ", "a", "i", " ">>
TopicStartups == <<"S", "t", "a", "r", "t", "u", "p", "s">>

\* What the analysis model call returns: two objects of the analysis schema.
Analyses ==
    {[topics |-> <<TopicAI, TopicStartups>>, humor_type |-> "ironic",
      format |-> "image-meme", template |-> Some("Drake"),
      joke_structure |-> "contrast", tone |-> "cynical",
      image_description |-> Some("a cat"), why_funny |-> "irony"],
     [topics |-> <<TopicAiPadded>>, humor_type |-> "absurd",
      format |-> "text-only", template |-> None,
      joke_structure |-> "exaggeration", tone |-> "deadpan",
      image_description |-> None, why_funny |-> "absurdity"]}

\* createSearchableText: the parts that are joined and lowercased, in order.
createSearchableText(meme, analysis) ==
    [lowercased |-> TRUE,
     text |-> OrNull(meme.text),
     topics |-> analysis.topics,
     humor_type |-> analysis.humor_type,
     format |-> analysis.format,
     template |-> analysis.template,
     joke_structure |-> analysis.joke_structure,
     tone |-> analysis.tone,
     image_description |-> analysis.image_description,
     why_funny |-> analysis.why_funny]

\* An update payload that leaves analyzed_at out.
AnalysisPayloadUnstamped(meme, analysis, now) ==
    [topics |-> Some(analysis.topics),
     humor_type |-> Some(analysis.humor_type),
     format |-> Some(analysis.format),
     template |-> analysis.template,
     joke_structure |-> Some(analysis.joke_structure),
     tone |-> Some(analysis.tone),
     image_analysis |-> analysis.image_description,
     searchable_text |-> Some(createSearchableText(meme, analysis))]

\* An update payload that writes the fetched post back whole.
AnalysisPayloadWholeRow(meme, analysis, now) ==
    [c \in Columns |->
        IF c = "analyzed_at" THEN Some(now)
        ELSE Merge(AnalysisPayloadUnstamped(meme, analysis, now), meme)[c]]

\* The update payload of the analysis step.
AnalysisPayload(meme, analysis, now) ==
    [topics |-> Some(analysis.topics),
     humor_type |-> Some(analysis.humor_type),
     format |-> Some(analysis.format),
     template |-> analysis.template,
     joke_structure |-> Some(analysis.joke_structure),
     tone |-> Some(analysis.tone),
     image_analysis |-> analysis.image_description,
     searchable_text |-> Some(createSearchableText(meme, analysis)),
     analyzed_at |-> Some(now)]

\* .from("memes").select("*").in("id", memeIds): the rows whose id is listed.
SelectByIds(table, ids) ==
    LET RECURSIVE Pick(_)
        Pick(i) ==
            IF i > Len(table) THEN <<>>
            ELSE (IF table[i].id[1] \in Range(ids) THEN <<table[i]>> ELSE <<>>)
                 \o Pick(i + 1)
    IN  Pick(1)

\* An id that no stored post has.
UnknownId == 99 + 0

\* The memeIds a request carries: absent, empty, or a list of stored and
\* unknown ids, in either order and with a repetition.
MemeIdLists ==
    {None, Some(<<>>), Some(<<1>>), Some(<<2>>), Some(<<UnknownId>>),
     Some(<<1, 2>>), Some(<<2, 1>>), Some(<<1, UnknownId, 2>>), Some(<<1, 1>>)}

\* What happens to one post of a batch: the model call throws, or returns an
\* analysis and the update then succeeds, returns an error or throws.
ItemOutcomes ==
    {[model |-> "throw", analysis |-> None, update |-> "ok"]}
    \cup {[model |-> "ok", analysis |-> Some(a), update |-> u] :
             a \in Analyses, u \in StoreOutcomes}

RECURSIVE AnalyzeLoop(_, _, _, _, _, _)
\* The per-post loop: the table, the results and the model calls after the
\* posts from position i on have been processed.
AnalyzeLoop(rows, outcome, i, table, results, log) ==
    IF i > Len(rows) THEN [table |-> table, results |-> results, log |-> log]
    ELSE LET meme == rows[i]
             o == outcome[i]
             id == meme.id[1]
             log2 == Append(log, [fn |-> "generateObject", purpose |-> "analyze"])
         IN  IF o.model = "throw"
             THEN AnalyzeLoop(rows, outcome, i + 1, table,
                      Append(results, [id |-> id, success |-> FALSE,
                                       error |-> "Analysis failed"]), log2)
             ELSE CASE o.update = "ok" ->
                         AnalyzeLoop(rows, outcome, i + 1,
                             UpdateById(table, id,
                                 AnalysisPayload(meme, o.analysis[1], clock + 1)),
                             Append(results, [id |-> id, success |-> TRUE,
                                              analysis |-> o.analysis[1]]), log2)
                    [] o.update = "error" ->
                         AnalyzeLoop(rows, outcome, i + 1, table,
                             Append(results, [id |-> id, success |-> FALSE,
                                              error |-> "update error message"]), log2)
                    [] OTHER ->
                         AnalyzeLoop(rows, outcome, i + 1, table,
                             Append(results, [id |-> id, success |-> FALSE,
                                              error |-> "Analysis failed"]), log2)

\* POST of src/app/api/analyze/route.ts.
AnalyzePOST ==
    /\ clock < MaxClock
    /\ clock' = clock + 1
    /\ UNCHANGED <<generated_memes, style_guides, topicMap, failed, inflight, env, session, request,
                 returned>>
    /\ \E ids \in MemeIdLists, fetch \in {"ok", "error"} :
          IF ids = None \/ ids = Some(<<>>)
          THEN /\ resp' = [route |-> "analyze", status |-> 400, success |-> FALSE,
                           error |-> "memeIds array is required"]
               /\ UNCHANGED <<memes, calls>>
          ELSE IF fetch = "error"
          THEN /\ resp' = [route |-> "analyze", status |-> 500, success |-> FALSE,
                           error |-> "Failed to fetch memes"]
               /\ UNCHANGED <<memes, calls>>
          ELSE LET rows == SelectByIds(memes, ids[1])
               IN  \E outcome \in [1..Len(rows) -> ItemOutcomes] :
                      LET r == AnalyzeLoop(rows, outcome, 1, memes, <<>>, <<>>)
                      IN  /\ memes' = r.table
                          /\ calls' = r.log
                          /\ resp' = [route |-> "analyze", status |-> 200,
                                      success |-> TRUE, memeIds |-> ids[1],
                                      results |-> r.results]

(***************************************************************************)
(* The store specification: ingestion and analysis in any order.          *)
(***************************************************************************)
NoResp == [route |-> "none"]

\* Neither password is configured.
NoEnv == [AUTH_PASSWORD |-> None, AUTH_PASSWORD_2 |-> None]

\* No model call of a generate request has returned.
NoneReturned == [selection |-> None, generatedText |-> None]

NoFault == [step |-> "none", at |-> 0, kind |-> "ok"]

Init ==
    /\ memes = <<>>
    /\ generated_memes = <<>>
    /\ style_guides = <<>>
    /\ clock = 0
    /\ calls = <<>>
    /\ topicMap = <<>>
    /\ failed = NoFault
    /\ inflight = None
    /\ env = NoEnv
    /\ session = None
    /\ request = None
    /\ returned = NoneReturned
    /\ resp = NoResp

Next ==
    \/ IngestPOST
    \/ CollectPOST
    \/ AnalyzePOST

Spec == Init /\ [][Next]_vars

(***************************************************************************)
(* The concurrent specification: ingestion requests, each one upsert       *)
(* statement, interleaved with the steps of a batch analysis: its fetch,   *)
(* then for each fetched post the model call and the update, then the      *)
(* response.                                                               *)
(***************************************************************************)
\* Lines 96-107 of the analyze handler: the fetch of the posts by id.
AnalyzeFetch ==
    /\ inflight = None
    /\ clock < MaxClock
    /\ \E ids \in MemeIdLists \ {None, Some(<<>>)} :
          inflight' = Some([memeIds |-> ids[1], rows |-> SelectByIds(memes, ids[1]),
                            results |-> <<>>])
    /\ calls' = <<>>
    /\ UNCHANGED <<memes, generated_memes, style_guides, clock, topicMap, failed, env, session,
                   request, returned, resp>>

\* Lines 111-182: one pass of the loop, over the next fetched post as it was
\* when fetched.
AnalyzeItem ==
    /\ inflight # None
    /\ Len(inflight[1].results) < Len(inflight[1].rows)
    /\ \E o \in ItemOutcomes :
          LET meme == inflight[1].rows[Len(inflight[1].results) + 1]
              r == AnalyzeLoop(<<meme>>, <<o>>, 1, memes, <<>>, <<>>)
          IN  /\ memes' = r.table
              /\ calls' = r.log
              /\ inflight' = Some([inflight[1] EXCEPT
                                      !.results = inflight[1].results \o r.results])
    /\ clock' = clock + 1
    /\ UNCHANGED <<generated_memes, style_guides, topicMap, failed, env, session, request, returned,
                   resp>>

\* Lines 184-189: the response, after the last pass.
AnalyzeRespond ==
    /\ inflight # None
    /\ Len(inflight[1].results) = Len(inflight[1].rows)
    /\ resp' = [route |-> "analyze", status |-> 200, success |-> TRUE,
                memeIds |-> inflight[1].memeIds, results |-> inflight[1].results]
    /\ inflight' = None
    /\ calls' = <<>>
    /\ UNCHANGED <<memes, generated_memes, style_guides, clock, topicMap, failed, env, session,
                   request, returned>>

NextConcurrent ==
    \/ IngestPOST
    \/ AnalyzeFetch
    \/ AnalyzeItem
    \/ AnalyzeRespond

SpecConcurrent == Init /\ [][NextConcurrent]_vars

(***************************************************************************)
(* Claims about the store.                                                 *)
(***************************************************************************)
RowsWithUrl(table, url) == {i \in 1..Len(table) : table[i].url = url}

UniqueUrls(table) ==
    \A i, j \in 1..Len(table) : table[i].url = table[j].url => i = j

\* The last step was an ingestion that the store accepted.
Ingested == resp.route \in {"memes", "collect"} /\ resp.success

\* The counters the ingestion handler of `route` writes from `body`.
WrittenCounters(route, body) ==
    IF route = "memes"
    THEN [likes |-> Some(safeMetric(body.likes)),
          retweets |-> Some(safeMetric(body.retweets)),
          views |-> Some(safeMetric(body.views)),
          comments |-> Some(safeMetric(body.comments)),
          bookmarks |-> Some(safeMetric(body.bookmarks))]
    ELSE [likes |-> Some(OrElseNum(body.likes, 0)),
          retweets |-> Some(OrElseNum(body.retweets, 0))]

\* C6: the posts table never holds two rows with one url, and an ingestion of
\* a url that is already stored adds no row, leaves the row of that url with
\* the counters of this write and leaves its analysis columns, analyzed_at
\* among them, as they were.
C6_UpsertOneRecordPerUrl ==
    [][/\ UniqueUrls(memes')
       /\ Ingested' /\ RowsWithUrl(memes, resp'.body.url) # {} =>
            LET url == resp'.body.url
                old == RowByUrl(memes, url)
                new == RowByUrl(memes', url)
                written == WrittenCounters(resp'.route, resp'.body)
            IN  /\ Len(memes') = Len(memes)
                /\ Cardinality(RowsWithUrl(memes', url)) = 1
                /\ \A c \in DOMAIN written : new[c] = written[c]
                /\ \A c \in AnalysisColumns : new[c] = old[c]
                /\ new.id = old.id]_vars

\* An analyzed post was ingested again, with counters other than those of the
\* body that variant 1 carries.
C6_Witness ==
    /\ Ingested
    /\ resp.meme.analyzed_at # None
    /\ resp.meme.collected_at[1] > resp.meme.analyzed_at[1]
    /\ resp.meme.likes = Some(20)
    /\ Len(memes) = 1

(***************************************************************************)
(* Numbers.  avgLikes is an IEEE-754 double.  A double that is finite and   *)
(* not negative is modelled exactly: a natural number of any size is a     *)
(* sequence of limbs (base 2^15, least significant first, no leading zero  *)
(* limb), and a double is [m, e] with value m * 2^e, where m is zero (and  *)
(* e = 0) or has exactly 53 bits.  Every operation rounds its exact result *)
(* to nearest, ties to even, as the hardware does.  Exponent overflow and  *)
(* subnormals are out of reach of the values drawn here.                   *)
(***************************************************************************)
LimbBits == 15 + 0
Base == 2^15
Precision == 53 + 0

RECURSIVE BNorm(_)
\* Drop leading zero limbs.
BNorm(a) ==
    IF a = <<>> THEN <<>>
    ELSE IF a[Len(a)] = 0 THEN BNorm(SubSeq(a, 1, Len(a) - 1))
    ELSE a

RECURSIVE BFromInt(_)
BFromInt(n) == IF n = 0 THEN <<>> ELSE <<n % Base>> \o BFromInt(n \div Base)

RECURSIVE BAddC(_, _, _)
\* a + b + carry.
BAddC(a, b, carry) ==
    IF a = <<>> /\ b = <<>> THEN (IF carry = 0 THEN <<>> ELSE <<carry>>)
    ELSE LET x == IF a = <<>> THEN 0 ELSE Head(a)
             y == IF b = <<>> THEN 0 ELSE Head(b)
             v == x + y + carry
         IN  <<v % Base>> \o BAddC(IF a = <<>> THEN <<>> ELSE Tail(a),
                                   IF b = <<>> THEN <<>> ELSE Tail(b), v \div Base)

BAdd(a, b) == BAddC(a, b, 0)

RECURSIVE BMulSmallC(_, _, _)
\* a * k + carry, for 0 <= k < Base.
BMulSmallC(a, k, carry) ==
    IF a = <<>> THEN (IF carry = 0 THEN <<>> ELSE <<carry>>)
    ELSE LET v == Head(a) * k + carry
         IN  <<v % Base>> \o BMulSmallC(Tail(a), k, v \div Base)

BMulSmall(a, k) == IF k = 0 THEN <<>> ELSE BMulSmallC(a, k, 0)

RECURSIVE BMul(_, _)
BMul(a, b) ==
    IF a = <<>> \/ b = <<>> THEN <<>>
    ELSE BAdd(BMulSmall(b, Head(a)),
              LET rest == BMul(Tail(a), b)
              IN  IF rest = <<>> THEN <<>> ELSE <<0>> \o rest)

RECURSIVE BPow(_, _)
BPow(a, n) == IF n = 0 THEN <<1>> ELSE BMul(a, BPow(a, n - 1))

RECURSIVE BCmpFrom(_, _, _)
\* Compare two numbers of equal length from limb i down: -1, 0 or 1.
BCmpFrom(a, b, i) ==
    IF i = 0 THEN 0
    ELSE IF a[i] < b[i] THEN -1
    ELSE IF a[i] > b[i] THEN 1
    ELSE BCmpFrom(a, b, i - 1)

BCmp(a, b) ==
    IF Len(a) < Len(b) THEN -1
    ELSE IF Len(a) > Len(b) THEN 1
    ELSE BCmpFrom(a, b, Len(a))

RECURSIVE BDivSmallFrom(_, _, _, _)
\* Long division by 0 < k < Base from limb i down: the quotient's limbs and
\* the remainder.
BDivSmallFrom(a, k, i, rem) ==
    IF i = 0 THEN [q |-> <<>>, r |-> rem]
    ELSE LET v == rem * Base + a[i]
             rest == BDivSmallFrom(a, k, i - 1, v % k)
         IN  [q |-> Append(rest.q, v \div k), r |-> rest.r]

BDivSmall(a, k) ==
    LET d == BDivSmallFrom(a, k, Len(a), 0)
    IN  [q |-> BNorm(d.q), r |-> d.r]

RECURSIVE IntBitLen(_)
IntBitLen(n) == IF n = 0 THEN 0 ELSE 1 + IntBitLen(n \div 2)

BBitLen(a) == IF a = <<>> THEN 0 ELSE LimbBits * (Len(a) - 1) + IntBitLen(a[Len(a)])

BIsOdd(a) == a # <<>> /\ a[1] % 2 = 1

\* a * 2^n.
BShl(a, n) ==
    IF a = <<>> THEN <<>>
    ELSE [i \in 1..(n \div LimbBits) |-> 0] \o BMulSmall(a, 2^(n % LimbBits))

\* a \div 2^n, and whether a nonzero remainder was dropped.
BShr(a, n) ==
    LET limbs == Min(n \div LimbBits, Len(a))
        dropped == SubSeq(a, 1, limbs)
        kept == SubSeq(a, limbs + 1, Len(a))
        d == BDivSmall(kept, 2^(n % LimbBits))
    IN  IF n \div LimbBits >= Len(a)
        THEN [q |-> <<>>, sticky |-> a # <<>>]
        ELSE [q |-> d.q, sticky |-> d.r # 0 \/ \E i \in 1..limbs : dropped[i] # 0]

DZero == [m |-> <<>>, e |-> 0]

\* The double nearest to n * 2^e (plus a nonzero amount below the last bit
\* of n when sticky), ties to even.
DRound(n, e, sticky) ==
    LET len == BBitLen(n)
    IN  IF n = <<>> THEN DZero
        ELSE IF len <= Precision
        THEN [m |-> BShl(n, Precision - len), e |-> e - (Precision - len)]
        ELSE LET d == len - Precision
                 s == BShr(n, d - 1)
                 roundBit == BIsOdd(s.q)
                 q == BShr(s.q, 1).q
                 up == roundBit /\ (s.sticky \/ sticky \/ BIsOdd(q))
                 r == IF up THEN BAdd(q, <<1>>) ELSE q
             IN  IF BBitLen(r) > Precision
                 THEN [m |-> BShr(r, 1).q, e |-> e + d + 1]
                 ELSE [m |-> r, e |-> e + d]

\* An integer 0 <= i as a double.
DFromInt(i) == DRound(BFromInt(i), 0, FALSE)

\* x * k for an integer 0 <= k < 2^15.
DMulInt(x, k) == DRound(BMulSmall(x.m, k), x.e, FALSE)

\* x + c for an integer 0 <= c.
DAddInt(x, c) ==
    IF x.m = <<>> THEN DFromInt(c)
    ELSE IF x.e >= 0 THEN DRound(BAdd(BShl(x.m, x.e), BFromInt(c)), 0, FALSE)
    ELSE DRound(BAdd(x.m, BShl(BFromInt(c), 0 - x.e)), x.e, FALSE)

GuardBits == 20 + 0

\* x / k for an integer 0 < k < 2^15.
DDivInt(x, k) ==
    LET d == BDivSmall(BShl(x.m, GuardBits), k)
    IN  DRound(d.q, x.e - GuardBits, d.r # 0)

RECURSIVE DStrip(_, _)
\* m * 2^e with the trailing zero bits of m moved into e.
DStrip(m, e) ==
    IF m = <<>> THEN DZero
    ELSE IF m[1] = 0 THEN DStrip(Tail(m), e + LimbBits)
    ELSE IF m[1] % 2 = 0 THEN DStrip(BShr(m, 1).q, e + 1)
    ELSE [m |-> m, e |-> e]

\* The sign of x^cx - y^cy for doubles x, y >= 1 and integers cx, cy >= 0.
DCmpPow(x, cx, y, cy) ==
    LET sx == DStrip(x.m, x.e)
        sy == DStrip(y.m, y.e)
        px == BPow(sx.m, cx)
        py == BPow(sy.m, cy)
        ex == sx.e * cx
        ey == sy.e * cy
        low == Min(ex, ey)
    IN  BCmp(BShl(px, ex - low), BShl(py, ey - low))

(***************************************************************************)
(* Trends: GET /api/trends.                                                *)
(***************************************************************************)
UpperSeq ==
    <<"A", "B", "C", "D", "E", "F", "G", "H", "I", "J", "K", "L", "M",
      "N", "O", "P", "Q", "R", "S", "T", "U", "V", "W", "X", "Y", "Z">>

LowerSeq ==
    <<"a", "b", "c", "d", "e", "f", "g", "h", "i", "j", "k", "l", "m",
      "n", "o", "p", "q", "r", "s", "t", "u", "v", "w", "x", "y", "z">>

LowerChar(c) ==
    IF \E i \in 1..Len(UpperSeq) : UpperSeq[i] = c
    THEN LowerSeq[CHOOSE i \in 1..Len(UpperSeq) : UpperSeq[i] = c]
    ELSE c

\* String.prototype.toLowerCase
toLowerCase(str) == [i \in 1..Len(str) |-> LowerChar(str[i])]

WhiteSpace == {" ", "\t", "\n"}

RECURSIVE trimStart(_)
trimStart(str) ==
    IF str # <<>> /\ Head(str) \in WhiteSpace THEN trimStart(Tail(str)) ELSE str

RECURSIVE trimEnd(_)
trimEnd(str) ==
    IF str # <<>> /\ str[Len(str)] \in WhiteSpace
    THEN trimEnd(SubSeq(str, 1, Len(str) - 1))
    ELSE str

\* String.prototype.trim
trim(str) == trimEnd(trimStart(str))

NormalizeNoTrim(topic) == toLowerCase(topic)

\* topic.toLowerCase().trim()
normalizedTopic(topic) == trim(toLowerCase(topic))

IncrementalMeanCountNotDecremented(avg, count, likes) ==
    DDivInt(DAddInt(DMulInt(avg, count), likes), count)

\* (existing.avgLikes * (existing.count - 1) + (meme.likes || 0)) / existing.count,
\* with count already incremented.
IncrementalMean(avg, count, likes) ==
    DDivInt(DAddInt(DMulInt(avg, count - 1), likes), count)

KeyIndex(map, key) == CHOOSE i \in 1..Len(map) : map[i].key = key

\* One pass of the inner loop: topicMap.get(normalizedTopic), then the update
\* of the existing bucket or the insertion of a new one at the end.
FoldTopic(map, meme, topic) ==
    LET key == normalizedTopic(topic)
    IN  IF \E i \in 1..Len(map) : map[i].key = key
        THEN [map EXCEPT ![KeyIndex(map, key)] =
                 [@ EXCEPT !.count = @ + 1,
                           !.avgLikes = IncrementalMean(@, map[KeyIndex(map, key)].count + 1,
                                                        OrElseNum(meme.likes, 0)),
                           !.memeIds = Append(@, meme.id[1])]]
        ELSE Append(map, [key |-> key, topic |-> topic, count |-> 1,
                          avgLikes |-> DFromInt(OrElseNum(meme.likes, 0)),
                          memeIds |-> <<meme.id[1]>>])

RECURSIVE TopicOccurrences(_, _, _)
\* The pairs of a row and one of its topics that the two loops visit, in the
\* order they visit them, for the rows lo..hi.  A row without topics is
\* skipped.
TopicOccurrences(rows, lo, hi) ==
    IF lo > hi THEN <<>>
    ELSE IF lo = hi
    THEN IF rows[lo].topics = None THEN <<>>
         ELSE [k \in 1..Len(rows[lo].topics[1]) |->
                  [meme |-> rows[lo], topic |-> rows[lo].topics[1][k]]]
    ELSE TopicOccurrences(rows, lo, (lo + hi) \div 2)
         \o TopicOccurrences(rows, (lo + hi) \div 2 + 1, hi)

RECURSIVE FoldMemes(_, _, _, _)
\* The passes lo..hi of the loops, as the passes lo..mid followed by the
\* passes mid+1..hi; the map after the first half is computed before the
\* second half starts.
FoldMemes(map, occ, lo, hi) ==
    IF lo > hi THEN map
    ELSE IF lo = hi THEN FoldTopic(map, occ[lo].meme, occ[lo].topic)
    ELSE LET mid == (lo + hi) \div 2
             half == FoldMemes(map, occ, lo, mid)
         IN  CASE Len(half) >= Len(map) -> FoldMemes(half, occ, mid + 1, hi)

ScoreCmpByCount(a, b) ==
    IF a.count > b.count THEN 1 ELSE IF a.count < b.count THEN -1 ELSE 0

\* The sign of a.count * Math.log(a.avgLikes + 1) - b.count * Math.log(b.avgLikes + 1).
\* The sum avgLikes + 1 is rounded as a double; the logarithm, which the
\* language leaves to the implementation, is taken as exact, so the scores are
\* compared as (avgLikes + 1)^count.
ScoreCmp(a, b) ==
    DCmpPow(DAddInt(a.avgLikes, 1), a.count, DAddInt(b.avgLikes, 1), b.count)

RECURSIVE InsertByScore(_, _)
\* x placed after every element that the comparator does not put behind it.
InsertByScore(sorted, x) ==
    IF sorted = <<>> THEN <<x>>
    ELSE IF ScoreCmp(x, Head(sorted)) > 0 THEN <<x>> \o sorted
    ELSE <<Head(sorted)>> \o InsertByScore(Tail(sorted), x)

RECURSIVE SortByScore(_, _)
\* Array.prototype.sort with the comparator b.score - a.score: descending
\* and stable.
SortByScore(buckets, i) ==
    IF i = 0 THEN <<>>
    ELSE InsertByScore(SortByScore(buckets, i - 1), buckets[i])

TopN == 20

sliceNoLimit(seq, n) == seq

\* Array.prototype.slice(0, n)
slice(seq, n) == SubSeq(seq, 1, Min(n, Len(seq)))

DayTicks == 24
DefaultDays == 7

RECURSIVE InsertByCollected(_, _)
InsertByCollected(sorted, row) ==
    IF sorted = <<>> THEN <<row>>
    ELSE IF row.collected_at[1] > Head(sorted).collected_at[1] THEN <<row>> \o sorted
    ELSE <<Head(sorted)>> \o InsertByCollected(Tail(sorted), row)

RECURSIVE TrendsQuery(_, _, _)
\* .not("analyzed_at", "is", null).gte("collected_at", start)
\* .order("collected_at", {ascending: false}) over the first i rows.
TrendsQuery(table, start, i) ==
    IF i = 0 THEN <<>>
    ELSE LET rest == TrendsQuery(table, start, i - 1)
             row == table[i]
         IN  IF row.analyzed_at # None /\ row.collected_at[1] >= start
             THEN InsertByCollected(rest, row)
             ELSE rest

\* humorTypes[meme.humor_type] = (humorTypes[meme.humor_type] || 0) + 1, and
\* the same for formats: the number of rows per value of a column.
Distribution(rows, column) ==
    LET present == {rows[i][column][1] : i \in {j \in 1..Len(rows) : rows[j][column] # None}}
    IN  [v \in present |-> Cardinality({i \in 1..Len(rows) : rows[i][column] = Some(v)})]

\* GET of the trends handler, applied once to the table of the behaviour.
TrendsGET ==
    /\ resp = NoResp
    /\ UNCHANGED <<memes, generated_memes, style_guides, clock, failed, inflight, env, session,
                 request, returned>>
    /\ calls' = <<>>
    /\ \E days \in {None, Some(1)}, store \in StoreOutcomes :
          LET window == IF days = None THEN DefaultDays ELSE days[1]
              rows == TrendsQuery(memes, clock - window * DayTicks, Len(memes))
              occ == TopicOccurrences(rows, 1, Len(rows))
              folded == FoldMemes(<<>>, occ, 1, Len(occ))
          IN  CASE store = "error" ->
                     /\ resp' = [route |-> "trends", status |-> 500, success |-> FALSE,
                                 error |-> "store error message"]
                     /\ topicMap' = <<>>
                [] store = "throw" ->
                     /\ resp' = [route |-> "trends", status |-> 500, success |-> FALSE,
                                 error |-> "Failed to get trends"]
                     /\ topicMap' = <<>>
                [] OTHER ->
                     IF rows = <<>>
                     THEN /\ resp' = [route |-> "trends", status |-> 200, success |-> TRUE,
                                      trends |-> <<>>, totalMemes |-> 0, period |-> window,
                                      message |-> "No analyzed memes found for this period"]
                          /\ topicMap' = <<>>
                     ELSE /\ topicMap' = folded
                          /\ resp' = [route |-> "trends", status |-> 200, success |-> TRUE,
                                      trends |-> slice(SortByScore(folded, Len(folded)), TopN),
                                      totalMemes |-> Len(rows), period |-> window,
                                      humorTypes |-> Distribution(rows, "humor_type"),
                                      formats |-> Distribution(rows, "format")]

(***************************************************************************)
(* The trends specification: the handler applied to every table of a       *)
(* bounded family.  A table is given by its analyzed posts in the order    *)
(* the query returns them (most recent first).                             *)
(***************************************************************************)
MaxPosts == 3
MaxRun == 10
MaxWide == 22
TrendNow == 1000
TickGap == 6

TrendPost(likes, topics) ==
    [likes |-> likes, topics |-> topics,
     humor_type |-> IF likes = None THEN None
                    ELSE IF likes[1] % 2 = 0 THEN Some("ironic") ELSE Some("absurd"),
     format |-> IF topics = None THEN None ELSE Some("text-only")]

\* The table whose analyzed posts the query returns in the order of `posts`:
\* the post at position k was collected k * TickGap ticks ago.
TrendTable(posts) ==
    LET n == Len(posts)
    IN  [i \in 1..n |->
            LET post == posts[n + 1 - i]
            IN  [NewRow(i) EXCEPT
                    !.url = Some(i),
                    !.likes = post.likes,
                    !.topics = post.topics,
                    !.humor_type = post.humor_type,
                    !.format = post.format,
                    !.collected_at = Some(TrendNow - TickGap * (n + 1 - i)),
                    !.analyzed_at = Some(TrendNow)]]

SmallShapes ==
    {TrendPost(Some(10), Some(<<TopicAI>>)),
     TrendPost(Some(20), Some(<<TopicAiLower>>)),
     TrendPost(Some(5), Some(<<TopicStartups>>)),
     TrendPost(None, Some(<<TopicAiPadded>>)),
     TrendPost(Some(7), None),
     TrendPost(Some(3), Some(<<>>)),
     TrendPost(Some(4), Some(<<TopicAI, TopicAiPadded>>)),
     TrendPost(Some(0), Some(<<TopicStartups, TopicAiLower>>))}

RunShapes ==
    {TrendPost(Some(100), Some(<<TopicAI>>)),
     TrendPost(Some(1), Some(<<TopicStartups>>)),
     TrendPost(Some(5), Some(<<TopicAiLower>>)),
     TrendPost(Some(2), Some(<<TopicAiPadded>>))}

Rep(n, x) == [i \in 1..n |-> x]

\* The k-th of up to 26 topics that differ after normalization.
WideTopic(k) == <<"x", LowerSeq[k]>>

WideTopics(from, to) == [i \in 1..(to - from + 1) |-> WideTopic(from + i - 1)]

\* Tables in which the query filters: an unanalyzed post, and an analyzed
\* post collected before the default window.
FilterTables ==
    LET base == TrendTable(<<TrendPost(Some(10), Some(<<TopicAI>>))>>)
        fresh == [NewRow(2) EXCEPT !.url = Some(2), !.likes = Some(50),
                                   !.collected_at = Some(TrendNow)]
        old == [NewRow(2) EXCEPT !.url = Some(2), !.likes = Some(50),
                                 !.topics = Some(<<TopicAI>>),
                                 !.collected_at = Some(TrendNow - DefaultDays * DayTicks - 1),
                                 !.analyzed_at = Some(TrendNow)]
    IN  {Append(base, fresh), Append(base, old), <<fresh>>}

TrendCorpora ==
    {TrendTable(posts) : posts \in SeqsUpTo(SmallShapes, MaxPosts)}
    \cup {TrendTable(Rep(n1, s1) \o Rep(n2, s2)) :
             n1 \in 0..MaxRun, n2 \in 0..MaxRun, s1 \in RunShapes, s2 \in RunShapes}
    \cup UNION {{TrendTable(<<TrendPost(Some(3), Some(WideTopics(1, k))),
                              TrendPost(Some(l), Some(WideTopics(k - j + 1, k)))>>) :
                    j \in 0..k, l \in {0, 9}} : k \in (MaxWide - 3)..MaxWide}
    \cup FilterTables

InitTrends ==
    /\ memes \in TrendCorpora
    /\ generated_memes = <<>>
    /\ style_guides = <<>>
    /\ clock = TrendNow
    /\ calls = <<>>
    /\ topicMap = <<>>
    /\ failed = NoFault
    /\ inflight = None
    /\ env = NoEnv
    /\ session = None
    /\ request = None
    /\ returned = NoneReturned
    /\ resp = NoResp

NextTrends == TrendsGET

SpecTrends == InitTrends /\ [][NextTrends]_vars

(***************************************************************************)
(* Claims about the trend aggregator.                                      *)
(***************************************************************************)
\* The handler answered with trends computed from at least one post.
TrendsDone == resp.route = "trends" /\ resp.success /\ resp.totalMemes > 0

\* The posts of the window, in the order the handler folds them.
WindowRows == TrendsQuery(memes, clock - resp.period * DayTicks, Len(memes))

RECURSIVE OccOfTopics(_, _, _)
OccOfTopics(meme, topics, i) ==
    IF i > Len(topics) THEN <<>>
    ELSE <<[id |-> meme.id[1], topic |-> topics[i],
            likes |-> IF meme.likes = None THEN 0 ELSE meme.likes[1]]>>
         \o OccOfTopics(meme, topics, i + 1)

RECURSIVE OccOfRows(_, _)
\* The topic occurrences of the window: one per post and topic string.
OccOfRows(rows, i) ==
    IF i > Len(rows) THEN <<>>
    ELSE (IF rows[i].topics = None THEN <<>>
          ELSE OccOfTopics(rows[i], rows[i].topics[1], 1))
         \o OccOfRows(rows, i + 1)

Occurrences == OccOfRows(WindowRows, 1)

\* The lowercased, trimmed form of a topic string.
CanonTopic(t) ==
    LET solid == {i \in 1..Len(t) : t[i] \notin WhiteSpace}
    IN  IF solid = {} THEN <<>>
        ELSE LET first == CHOOSE i \in solid : \A j \in solid : i <= j
                 last == CHOOSE i \in solid : \A j \in solid : i >= j
             IN  [k \in 1..(last - first + 1) |-> LowerChar(t[first + k - 1])]

\* The occurrences that belong to a bucket.
OccOfBucket(occ, bucket) ==
    {k \in 1..Len(occ) : CanonTopic(occ[k].topic) = CanonTopic(bucket.topic)}

RECURSIVE SumLikes(_, _)
SumLikes(occ, ks) ==
    IF ks = {} THEN 0
    ELSE LET k == CHOOSE x \in ks : TRUE
         IN  occ[k].likes + SumLikes(occ, ks \ {k})

\* C7: occurrences fall in one bucket exactly when their lowercased, trimmed
\* topic strings are equal; a bucket's count is the number of its occurrences
\* and its displayed topic is the string of the first of them.
C7_BucketsByNormalizedTopic ==
    TrendsDone =>
        LET occ == Occurrences
        IN  /\ \A k \in 1..Len(occ) :
                  \E i \in 1..Len(topicMap) :
                      CanonTopic(topicMap[i].topic) = CanonTopic(occ[k].topic)
            /\ \A i, j \in 1..Len(topicMap) :
                  CanonTopic(topicMap[i].topic) = CanonTopic(topicMap[j].topic) => i = j
            /\ \A i \in 1..Len(topicMap) :
                  LET ks == OccOfBucket(occ, topicMap[i])
                  IN  /\ ks # {}
                      /\ topicMap[i].count = Cardinality(ks)
                      /\ topicMap[i].topic = occ[CHOOSE k \in ks : \A x \in ks : k <= x].topic
            /\ \A i \in 1..Len(resp.trends) :
                  \E j \in 1..Len(topicMap) : resp.trends[i] = topicMap[j]

\* Posts tagged AI, ai and Startups with 10, 20 and 5 likes were folded: the
\* merged bucket shows "AI", counts 2 and averages 15.
C7_Witness ==
    /\ TrendsDone
    /\ Len(WindowRows) = 3
    /\ Len(topicMap) = 2
    /\ topicMap[1].topic = TopicAI
    /\ topicMap[1].count = 2
    /\ topicMap[1].avgLikes = DFromInt(15)
    /\ topicMap[1].key = TopicAiLower
    /\ topicMap[2].topic = TopicStartups
    /\ \E i \in 1..Len(memes) : memes[i].topics = Some(<<TopicAiLower>>)

\* The correctly rounded quotient sum / count.
MeanOf(occ, ks) == DDivInt(DFromInt(SumLikes(occ, ks)), Cardinality(ks))

\* C8 as stated: every bucket's avgLikes is the arithmetic mean of the likes
\* of its occurrences, a missing likes value counting as 0.
C8_AvgLikesIsExactMean ==
    TrendsDone =>
        \A i \in 1..Len(topicMap) :
            topicMap[i].avgLikes = MeanOf(Occurrences, OccOfBucket(Occurrences, topicMap[i]))

ExactMeanUpTo == 2^3 - 1

\* C8 as amended: a bucket of at most 7 occurrences has as avgLikes the
\* arithmetic mean of the likes of its occurrences, a missing likes value
\* counting as 0.
C8_AvgLikesIsMeanUpToSeven ==
    TrendsDone =>
        \A i \in 1..Len(topicMap) :
            topicMap[i].count <= ExactMeanUpTo =>
                topicMap[i].avgLikes =
                    MeanOf(Occurrences, OccOfBucket(Occurrences, topicMap[i]))

\* A bucket of three occurrences, one without likes, whose mean (20 + 20 + 0) / 3
\* is no integer.
C8_Witness ==
    /\ TrendsDone
    /\ \E i \in 1..Len(topicMap) :
          /\ topicMap[i].count = 3
          /\ topicMap[i].avgLikes = DDivInt(DFromInt(40), 3)
          /\ topicMap[i].avgLikes # DFromInt(13)
    /\ \E i \in 1..Len(memes) : memes[i].likes = None /\ memes[i].topics # None

\* The score count * ln(avgLikes + 1) of a is at least that of b.
ScoreAtLeast(a, b) ==
    DCmpPow(DAddInt(a.avgLikes, 1), a.count, DAddInt(b.avgLikes, 1), b.count) >= 0

C9_WitnessExample ==
    /\ TrendsDone
    /\ Len(topicMap) = 2
    /\ topicMap[1].count = 10 /\ topicMap[1].avgLikes = DFromInt(1)
    /\ resp.trends[1].count = 5 /\ resp.trends[1].avgLikes = DFromInt(100)
    /\ resp.trends[2] = topicMap[1]

\* C10 as stated: a post without topics is in no bucket, and a post is in a
\* bucket at most once: no id occurs twice in a bucket's memeIds, and a
\* bucket's count is the number of posts that carry a topic of the bucket.
C10_PostCountedOncePerBucket ==
    TrendsDone =>
        \A i \in 1..Len(topicMap) :
            LET ids == topicMap[i].memeIds
                posts == {r \in Range(WindowRows) :
                             /\ r.topics # None
                             /\ \E k \in 1..Len(r.topics[1]) :
                                   CanonTopic(r.topics[1][k]) = CanonTopic(topicMap[i].topic)}
            IN  /\ \A a, b \in 1..Len(ids) : ids[a] = ids[b] => a = b
                /\ topicMap[i].count = Cardinality(posts)
                /\ Range(ids) = {r.id[1] : r \in posts}

(***************************************************************************)
(* Text returned by the language model.  A text is a sequence of lexical   *)
(* units, each standing for the characters it spells: the separator "---", *)
(* the words "Image", "image" and "TEXT:", single digits, ".", ":", the    *)
(* blank, the line end, and words that contain none of these.              *)
(***************************************************************************)
Separator == "---"

DigitSeq == <<"0", "1", "2", "3", "4", "5", "6", "7", "8", "9">>

Digit == Range(DigitSeq)

DigitVal(d) == (CHOOSE i \in 1..Len(DigitSeq) : DigitSeq[i] = d) - 1

RECURSIVE parseInt(_)
\* parseInt of a run of digits.
parseInt(ds) ==
    IF ds = <<>> THEN 0
    ELSE 10 * parseInt(SubSeq(ds, 1, Len(ds) - 1)) + DigitVal(ds[Len(ds)])

\* The units /Image/i matches.
ImageWord == {"Image", "image", "IMAGE"}

LineEnd == "\n"

RECURSIVE split(_, _)
\* String.prototype.split(sep)
split(text, sep) ==
    IF \A i \in 1..Len(text) : text[i] # sep THEN <<text>>
    ELSE LET i == CHOOSE j \in 1..Len(text) :
                      text[j] = sep /\ \A k \in 1..(j - 1) : text[k] # sep
         IN  <<SubSeq(text, 1, i - 1)>> \o split(SubSeq(text, i + 1, Len(text)), sep)

\* The end of the run of units of `class` that starts at position j: the
\* first position from j on that holds no unit of the class.
RunEnd(str, j, class) ==
    LET other == {k \in j..Len(str) : str[k] \notin class}
    IN  IF other = {} THEN Len(str) + 1
        ELSE CHOOSE k \in other : \A l \in other : k <= l

Leftmost(S) == CHOOSE i \in S : \A j \in S : i <= j

\* block.match(/TEXT:\s*([\s\S]+?)$/m): the capture, or None.  After the
\* leftmost "TEXT:" the blanks and line ends are skipped, and the capture runs
\* from there to the end of that line.  When nothing but white space follows
\* the marker, the pattern gives back the last white-space unit as capture.
matchText(block) ==
    LET starts == {i \in 1..Len(block) : block[i] = "TEXT:" /\ i < Len(block)}
    IN  IF starts = {} THEN None
        ELSE LET i == Leftmost(starts)
                 k == RunEnd(block, i + 1, WhiteSpace)
             IN  IF k > Len(block) THEN Some(<<block[Len(block)]>>)
                 ELSE LET ends == {e \in (k + 1)..(Len(block) + 1) :
                                      e = Len(block) + 1 \/ block[e] = LineEnd}
                      IN  Some(SubSeq(block, k, Leftmost(ends) - 1))

\* The positions where /Image\s*(\d+)/i matches.
ImageLabelStarts(block) ==
    {i \in 1..Len(block) :
        /\ block[i] \in ImageWord
        /\ LET k == RunEnd(block, i + 1, WhiteSpace)
           IN  k <= Len(block) /\ block[k] \in Digit}

\* block.match(/Image\s*(\d+)/i): the digits captured, or None.
matchImageNum(block) ==
    IF ImageLabelStarts(block) = {} THEN None
    ELSE LET i == Leftmost(ImageLabelStarts(block))
             k == RunEnd(block, i + 1, WhiteSpace)
         IN  Some(SubSeq(block, k, RunEnd(block, k, Digit) - 1))

\* block.replace(/Image\s*\d+:?/i, "")
replaceImageLabel(block) ==
    IF ImageLabelStarts(block) = {} THEN block
    ELSE LET i == Leftmost(ImageLabelStarts(block))
             d == RunEnd(block, RunEnd(block, i + 1, WhiteSpace), Digit)
             e == IF d <= Len(block) /\ block[d] = ":" THEN d + 1 ELSE d
         IN  SubSeq(block, 1, i - 1) \o SubSeq(block, e, Len(block))

matchNumberedNever(block) == None

\* block.match(/\d+\.\s*([\s\S]+)/): the capture, or None.  The match starts
\* at the leftmost digit whose run of digits is followed by "." and by at
\* least one more unit.
matchNumbered(block) ==
    LET starts == {i \in 1..Len(block) :
                      /\ block[i] \in Digit
                      /\ LET d == RunEnd(block, i, Digit)
                         IN  d < Len(block) /\ block[d] = "."}
    IN  IF starts = {} THEN None
        ELSE LET d == RunEnd(block, Leftmost(starts), Digit)
                 k == RunEnd(block, d + 1, WhiteSpace)
             IN  IF k > Len(block) THEN Some(<<block[Len(block)]>>)
                 ELSE Some(SubSeq(block, k, Len(block)))

\* generatedText.split("---").filter((block) => block.trim())
memeBlocks(generatedText) ==
    SelectSeq(split(generatedText, Separator), LAMBDA block : trim(block) # <<>>)

(***************************************************************************)
(* The generate handler.                                                   *)
(***************************************************************************)
\* One more than the rows the generate handler fetches.
OverLimit == 50 + 1

FetchLimit == 50

RECURSIVE OrderByCollected(_, _)
\* .order("collected_at", {ascending: false}) over the first i rows.
OrderByCollected(table, i) ==
    IF i = 0 THEN <<>>
    ELSE InsertByCollected(OrderByCollected(table, i - 1), table[i])

HasImagesOrNone(m) == m.images # None

\* (m) => m.images && Array.isArray(m.images) && m.images.length > 0
HasImages(m) == m.images # None /\ Len(m.images[1]) > 0

RECURSIVE imagesCatalog(_, _)
\* The catalog built from the first i posts: one entry per image, numbered
\* from 1 in the order pushed.
imagesCatalog(memesWithImages, i) ==
    IF i = 0 THEN <<>>
    ELSE LET before == imagesCatalog(memesWithImages, i - 1)
             meme == memesWithImages[i]
         IN  before \o
             [k \in 1..Len(meme.images[1]) |->
                 [index |-> Len(before) + k,
                  url |-> meme.images[1][k],
                  description |->
                      IF TruthyStr(meme.image_analysis) THEN meme.image_analysis[1]
                      ELSE OrElse(meme.text, "No description"),
                  originalText |-> OrElse(meme.text, "")]]

\* imagesCatalog.find((img) => img.index === imageNumber)
FindByIndex(catalog, imageNumber) ==
    IF \E i \in 1..Len(catalog) : catalog[i].index = imageNumber
    THEN Some(catalog[CHOOSE i \in 1..Len(catalog) : catalog[i].index = imageNumber])
    ELSE None

\* selection.selectedImages.map((sel) => imagesCatalog.find(...)).filter(Boolean)
Resolve(catalog, selection) ==
    LET found == [i \in 1..Len(selection) |-> FindByIndex(catalog, selection[i])]
        kept == SelectSeq(found, LAMBDA f : f # None)
    IN  [i \in 1..Len(kept) |-> kept[i][1]]

\* A manifest whose positions are the catalog numbers.
imagePositionMapByIndex(selectedImages) ==
    [idx \in 1..Len(selectedImages) |->
        [position |-> selectedImages[idx].index,
         originalIndex |-> selectedImages[idx].index,
         url |-> selectedImages[idx].url,
         description |-> selectedImages[idx].description]]

\* selectedImages.map((img, idx) => ({position: idx + 1, ...}))
imagePositionMap(selectedImages) ==
    [idx \in 1..Len(selectedImages) |->
        [position |-> idx,
         originalIndex |-> selectedImages[idx].index,
         url |-> selectedImages[idx].url,
         description |-> selectedImages[idx].description]]

\* The item of a block when only its label can give it an image.
BlockItemNoFallback(block, idx, map) ==
    LET textMatch == matchText(block)
        imageNumMatch == matchImageNum(block)
        labelled == IF imageNumMatch = None THEN None
                    ELSE Some(parseInt(imageNumMatch[1]))
        mapped == labelled # None /\ \E i \in 1..Len(map) : map[i].position = labelled[1]
    IN  [text |-> IF textMatch # None THEN trim(textMatch[1])
                  ELSE trim(replaceImageLabel(block)),
         image_suggestion |-> IF TruthyNum(labelled) THEN labelled ELSE None,
         image_url |-> IF mapped
                       THEN Some(map[CHOOSE i \in 1..Len(map) :
                                         map[i].position = labelled[1]].url)
                       ELSE None]

\* The item made of the block at 1-based position idx of the non-blank
\* blocks.
BlockItem(block, idx, map) ==
    LET textMatch == matchText(block)
        imageNumMatch == matchImageNum(block)
        labelled == IF imageNumMatch = None THEN None
                    ELSE Some(parseInt(imageNumMatch[1]))
        mapped == labelled # None /\ \E i \in 1..Len(map) : map[i].position = labelled[1]
        mappedUrl == IF mapped
                     THEN Some(map[CHOOSE i \in 1..Len(map) :
                                       map[i].position = labelled[1]].url)
                     ELSE None
        fallback == ~TruthyStr(mappedUrl) /\ idx <= Len(map)
        imageUrl == IF fallback THEN Some(map[idx].url) ELSE mappedUrl
        imagePosition == IF fallback THEN Some(map[idx].position) ELSE labelled
    IN  [text |-> IF textMatch # None THEN trim(textMatch[1])
                  ELSE trim(replaceImageLabel(block)),
         image_suggestion |-> IF TruthyNum(imagePosition) THEN imagePosition ELSE None,
         image_url |-> imageUrl]

\* The items of every block, kept or not.
generatedMemesUnfiltered(generatedText, map) ==
    LET blocks == memeBlocks(generatedText)
    IN  [idx \in 1..Len(blocks) |-> BlockItem(blocks[idx], idx, map)]

\* memeBlocks.map(...).filter((m) => m.text && m.image_url)
generatedMemes(generatedText, map) ==
    LET blocks == memeBlocks(generatedText)
        items == [idx \in 1..Len(blocks) |-> BlockItem(blocks[idx], idx, map)]
    IN  SelectSeq(items, LAMBDA m : m.text # <<>> /\ TruthyStr(m.image_url))

\* The items of the text-only handler.
textOnlyMemes(generatedText) ==
    LET blocks == memeBlocks(generatedText)
        items == [idx \in 1..Len(blocks) |->
                     [text |-> IF matchNumbered(blocks[idx]) # None
                               THEN trim(matchNumbered(blocks[idx])[1])
                               ELSE trim(blocks[idx]),
                      image_suggestion |-> None,
                      image_url |-> None]]
    IN  SelectSeq(items, LAMBDA m : m.text # <<>>)

\* The row .insert({topic, style, format, text_content, reference_meme_ids})
\* adds: the store assigns id and created_at, a column the payload does not
\* name stays unset.
GeneratedRow(id, req, format, text, now) ==
    [id |-> id, topic |-> req.topic[1], style |-> OrElse(req.style, "ironic"),
     format |-> format, text_content |-> text, reference_meme_ids |-> <<>>,
     image_url |-> None, created_at |-> now]

MaxSaves == 4

\* What goes wrong in a request: nothing, or one collaborator call.  `step`
\* names the call, `at` the pass of the save loop for step "insert", and
\* `kind` says whether the call returns an error or throws.

Faults ==
    {NoFault}
    \cup {[step |-> st, at |-> 0, kind |-> k] :
             st \in {"memes", "guide"}, k \in {"error", "throw"}}
    \cup {[step |-> st, at |-> 0, kind |-> "throw"] : st \in {"select", "text"}}
    \cup {[step |-> "insert", at |-> n, kind |-> k] :
             n \in 1..MaxSaves, k \in {"error", "throw"}}

\* The save loop over the items: the table afterwards, the passes that
\* inserted a row, and whether a pass threw.
SaveLoop(table, items, req, format, fault, now) ==
    LET hit == fault.step = "insert" /\ fault.at <= Len(items)
        thrown == hit /\ fault.kind = "throw"
        done == {n \in 1..Len(items) :
                    IF hit THEN n < fault.at \/ (fault.kind = "error" /\ n > fault.at)
                    ELSE TRUE}
        kept == SelectSeq([n \in 1..Len(items) |-> [n |-> n, item |-> items[n]]],
                          LAMBDA x : x.n \in done)
    IN  [table |-> table \o [j \in 1..Len(kept) |->
                                GeneratedRow(Len(table) + j, req, format,
                                             kept[j].item.text, now)],
         saved |-> Cardinality(done),
         thrown |-> thrown,
         failure |-> IF hit THEN fault ELSE NoFault]

\* The bodies of the generate requests: without topic, with an empty topic,
\* with the defaults (text-only), and with each format.
GenRequests ==
    {[topic |-> None, style |-> None, format |-> Some("image"), count |-> Some(10)],
     [topic |-> Some(""), style |-> None, format |-> None, count |-> None],
     [topic |-> Some("AI"), style |-> None, format |-> None, count |-> None],
     [topic |-> Some("AI"), style |-> Some("absurd"), format |-> Some("text-only"),
      count |-> Some(10)],
     [topic |-> Some("AI"), style |-> None, format |-> Some("image"), count |-> Some(10)],
     [topic |-> Some("AI"), style |-> Some("absurd"), format |-> Some("both"),
      count |-> Some(1)]}

\* What the image-selection call returns: the imageNumber of each entry of
\* selectedImages.  The schema bounds neither their number nor their values.
Selections == {<<>>, <<9>>, <<1>>, <<2, 9, 1>>, <<1, 1>>, <<1, 2, 3, 4>>}

\* The response of a failed precondition or of the catch clause.
Failure(status, error) ==
    [route |-> "generate", status |-> status, success |-> FALSE, error |-> error]

\* The reply of the framework to a handler whose promise rejects: status 500
\* without a body of the handler.
Unhandled == [route |-> "generate", status |-> 500]

SelectCall(count) ==
    [fn |-> "generateObject", purpose |-> "select", pick |-> Min(count, 3)]

\* The text-generation call of the image-first flow, which carries the
\* selected images.
ImageTextCall(selectedImages) ==
    [fn |-> "generateText", purpose |-> "image-first", images |-> Len(selectedImages)]

TextCall(purpose) == [fn |-> "generateText", purpose |-> purpose]

\* What the model calls returned: the image numbers of the selection and
\* the generated text, each None when its call did not return.
Returns(selection, generatedText) ==
    returned' = [selection |-> selection, generatedText |-> generatedText]

GenRespond(r, table, log, failure) ==
    /\ resp' = r
    /\ generated_memes' = table
    /\ calls' = log
    /\ failed' = failure

\* The image-first flow of POST, lines 50-296, for a request with a topic.
\* `texts` are the texts the text-generation call may return.
ImageFirst(req, fault, texts) ==
    LET format == req.format[1]
        count == IF req.count = None THEN 3 ELSE req.count[1]
        caught == Failure(500, "Failed to generate memes")
        allMemes == IF fault.step = "memes" THEN None
                    ELSE Some(slice(OrderByCollected(memes, Len(memes)), FetchLimit))
        memesWithImages == IF allMemes = None THEN <<>>
                           ELSE SelectSeq(allMemes[1], HasImages)
        catalog == imagesCatalog(memesWithImages, Len(memesWithImages))
    IN  IF fault.step = "memes" /\ fault.kind = "throw"
        THEN GenRespond(caught, generated_memes, <<>>, fault) /\ Returns(None, None)
        ELSE IF memesWithImages = <<>>
        THEN /\ GenRespond(
                    Failure(400,
                            "No images in collection. Save some memes with images first!"),
                    generated_memes, <<>>,
                    IF fault.step = "memes" THEN fault ELSE NoFault)
             /\ Returns(None, None)
        ELSE IF fault.step = "select"
        THEN /\ GenRespond(caught, generated_memes, <<SelectCall(count)>>, fault)
             /\ Returns(None, None)
        ELSE \E selection \in Selections :
            IF selection = <<>>
            THEN /\ GenRespond(
                        Failure(400, "Could not find suitable images for this topic"),
                        generated_memes, <<SelectCall(count)>>, NoFault)
                 /\ Returns(Some(selection), None)
            ELSE LET selectedImages == Resolve(catalog, selection)
                     map == imagePositionMap(selectedImages)
                     log == <<SelectCall(count), ImageTextCall(selectedImages)>>
                 IN  IF fault.step = "text"
                     THEN /\ GenRespond(caught, generated_memes, log, fault)
                          /\ Returns(Some(selection), None)
                     ELSE \E generatedText \in texts :
                         LET items == generatedMemes(generatedText, map)
                             save == SaveLoop(generated_memes, items, req, format,
                                              fault, clock + 1)
                         IN  /\ Returns(Some(selection), Some(generatedText))
                             /\ IF save.thrown
                                THEN GenRespond(caught, save.table, log, save.failure)
                                ELSE GenRespond(
                                         [route |-> "generate", status |-> 200,
                                          success |-> TRUE, memes |-> items,
                                          savedCount |-> save.saved,
                                          imagesConsidered |-> Len(catalog),
                                          imagesUsed |-> Len(selectedImages),
                                          approach |-> "image-first"],
                                         save.table, log, save.failure)

\* handleTextOnlyGeneration, lines 300-395.  POST returns its promise without
\* awaiting it, so what it throws is not caught by POST.  The two reads only
\* feed the prompt: an error result leaves their data null.
handleTextOnlyGeneration(req, fault, texts) ==
    LET reads == IF fault.step \in {"guide", "memes"} THEN fault ELSE NoFault
    IN  IF reads.kind = "throw"
        THEN GenRespond(Unhandled, generated_memes, <<>>, fault) /\ Returns(None, None)
        ELSE IF fault.step = "text"
        THEN /\ GenRespond(Unhandled, generated_memes, <<TextCall("text-only")>>, fault)
             /\ Returns(None, None)
        ELSE \E generatedText \in texts :
            LET items == textOnlyMemes(generatedText)
                save == SaveLoop(generated_memes, items, req, "text-only", fault,
                                 clock + 1)
                failure == IF reads # NoFault THEN reads ELSE save.failure
            IN  /\ Returns(None, Some(generatedText))
                /\ IF save.thrown
                   THEN GenRespond(Unhandled, save.table, <<TextCall("text-only")>>,
                                   failure)
                   ELSE GenRespond([route |-> "generate", status |-> 200,
                                    success |-> TRUE, memes |-> items,
                                    savedCount |-> Len(items), approach |-> "text-only"],
                                   save.table, <<TextCall("text-only")>>, failure)

(***************************************************************************)
(* The texts the text-generation call returns: up to MaxBlocks blocks of a *)
(* few shapes joined by the separator, and some texts of other shapes.     *)
(***************************************************************************)
MaxBlocks == 3

\* "Image n:" and "TEXT: w" on two lines, as the prompt asks for.
Labelled(n, w) == <<LineEnd, "Image", " ", DigitSeq[n + 1], ":", LineEnd, "TEXT:", " ", w, LineEnd>>

\* A caption without a label.
Caption(w) == <<LineEnd, "TEXT:", " ", w, LineEnd>>

\* A label followed by the caption, without "TEXT:".
LabelOnly(n, w) == <<"Image", " ", DigitSeq[n + 1], ":", " ", w>>

\* "n. w" as the text-only prompt asks for.
Numbered(n, w) == <<LineEnd, DigitSeq[n + 1], ".", " ", w, LineEnd>>

Blank == <<" ", LineEnd>>

RECURSIVE Join(_)
\* The blocks with the separator between them.
Join(blocks) ==
    IF blocks = <<>> THEN <<>>
    ELSE IF Len(blocks) = 1 THEN blocks[1]
    ELSE blocks[1] \o <<Separator>> \o Join(Tail(blocks))

ImageBlockShapes == {Labelled(1, "w1"), Labelled(2, "w2"), Caption("w3")}

ImageTexts ==
    {Join(blocks) : blocks \in SeqsUpTo(ImageBlockShapes, MaxBlocks)}
    \cup {Join(<<Labelled(1, "w1"), Labelled(2, "w2"), Labelled(3, "w3"), Labelled(4, "w4")>>),
          Join(<<Labelled(1, "w1"), Labelled(1, "w2"), Labelled(1, "w3"), Labelled(1, "w4")>>),
          Join(<<Labelled(1, "w1"), Blank, Labelled(2, "w2"), <<>>>>),
          Join(<<LabelOnly(2, "w1"), <<"w2">>, LabelOnly(7, "w3")>>),
          Join(<<<<"TEXT:", " ", "w1", LineEnd, "w2">>, <<"TEXT:", " ", LineEnd>>,
                 Labelled(0, "w3")>>)}

TextBlockShapes == {Numbered(1, "w1"), Numbered(2, "w2"), <<"w3", LineEnd>>}

\* "1. w1", "2. w2" and a block of blanks, each followed by a line end.
NumberedThenBlank ==
    <<"1", ".", " ", "w1", LineEnd, Separator, LineEnd, "2", ".", " ", "w2", LineEnd,
      Separator, " ", " ", " ", LineEnd>>

TextOnlyTexts ==
    {Join(blocks) : blocks \in SeqsUpTo(TextBlockShapes, MaxBlocks)}
    \cup {NumberedThenBlank,
          Join(<<Numbered(1, "w1"), <<LineEnd, "2", ".", " ", LineEnd>>>>),
          Join(<<Numbered(1, "w1"), Blank, Numbered(2, "w2"), <<>>>>),
          Join(<<<<"w1", " ", "2", ".", "0", " ", "w2">>, <<"1", ".", " ">>>>),
          Join(<<Numbered(1, "w1"), Numbered(2, "w2"), Numbered(3, "w3"), Numbered(4, "w4")>>)}

\* POST of the generate handler.
GeneratePOST ==
    /\ resp = NoResp
    /\ clock' = clock + 1
    /\ UNCHANGED <<memes, style_guides, topicMap, inflight, env, session>>
    /\ \E req \in GenRequests, fault \in Faults :
          /\ request' = Some(req)
          /\ IF ~TruthyStr(req.topic)
             THEN /\ GenRespond(Failure(400, "Topic is required"), generated_memes, <<>>,
                                NoFault)
                  /\ Returns(None, None)
             ELSE IF OrElse(req.format, "text-only") = "text-only"
             THEN handleTextOnlyGeneration(req, fault, TextOnlyTexts)
             ELSE ImageFirst(req, fault, ImageTexts)

(***************************************************************************)
(* The style-guide handler.                                                *)
(***************************************************************************)
RECURSIVE CountEntries(_, _)
\* Object.entries of the counts of the first i keys: one pair per key, in the
\* order the keys were first counted.
CountEntries(keys, i) ==
    IF i = 0 THEN <<>>
    ELSE LET before == CountEntries(keys, i - 1)
         IN  IF \E j \in 1..Len(before) : before[j][1] = keys[i]
             THEN [j \in 1..Len(before) |->
                      IF before[j][1] = keys[i] THEN <<before[j][1], before[j][2] + 1>>
                      ELSE before[j]]
             ELSE Append(before, <<keys[i], 1>>)

RECURSIVE InsertByCount(_, _)
InsertByCount(sorted, x) ==
    IF sorted = <<>> THEN <<x>>
    ELSE IF x[2] > Head(sorted)[2] THEN <<x>> \o sorted
    ELSE <<Head(sorted)>> \o InsertByCount(Tail(sorted), x)

RECURSIVE SortByCount(_, _)
\* .sort((a, b) => b[1] - a[1]) over the first i entries.
SortByCount(entries, i) ==
    IF i = 0 THEN <<>>
    ELSE InsertByCount(SortByCount(entries, i - 1), entries[i])

RECURSIVE Flatten(_)
Flatten(seqs) == IF seqs = <<>> THEN <<>> ELSE Head(seqs) \o Flatten(Tail(seqs))

\* The keys of the sorted counts of a column over the rows.
SortedKeys(values) ==
    LET entries == CountEntries(values, Len(values))
        sorted == SortByCount(entries, Len(entries))
    IN  [j \in 1..Len(sorted) |-> sorted[j][1]]

GuideTopics == 10

\* What the style-guide model call returns.
GuideContents == {"guide"}

IsCollected(m) == m.collected_at # None

\* .not("analyzed_at", "is", null)
IsAnalyzed(m) == m.analyzed_at # None

StyleFailure(status, error) ==
    [route |-> "style-guide", status |-> status, success |-> FALSE, error |-> error]

\* An insert that takes the place of the latest row.
InsertGuideOverLatest(table, row) ==
    IF table = <<>> THEN <<row>> ELSE [table EXCEPT ![Len(table)] = row]

\* .from("style_guides").insert(row)
InsertGuide(table, row) == Append(table, row)

UnsavedAsFailure(styleGuide) == StyleFailure(500, "Failed to generate style guide")

\* The response when the insert returned an error, lines 211-219.
Unsaved(styleGuide) ==
    [route |-> "style-guide", status |-> 200, success |-> TRUE, guide |-> styleGuide,
     saved |-> FALSE, message |-> "Style guide generated but failed to save"]

\* The response when the insert returned the row, lines 221-226.
Saved(savedGuide, memeCount) ==
    [route |-> "style-guide", status |-> 200, success |-> TRUE, guide |-> savedGuide,
     memeCount |-> memeCount,
     message |-> <<"Style guide generated from", memeCount, "analyzed memes">>]

\* POST of src/app/api/style-guide/route.ts.
StyleGuidePOST ==
    /\ resp = NoResp
    /\ clock' = clock + 1
    /\ UNCHANGED <<memes, generated_memes, topicMap, inflight, env, session, request, returned>>
    /\ \E fault \in Faults, styleGuide \in GuideContents :
          LET rows == SelectSeq(OrderByCollected(memes, Len(memes)), IsAnalyzed)
              caught == StyleFailure(500, "Failed to generate style guide")
              call == <<[fn |-> "generateObject", purpose |-> "style-guide"]>>
              sortedTopics ==
                  slice(SortedKeys(Flatten([i \in 1..Len(rows) |->
                            IF rows[i].topics = None THEN <<>> ELSE rows[i].topics[1]])),
                        GuideTopics)
              sortedHumor ==
                  SortedKeys(Flatten([i \in 1..Len(rows) |->
                      IF TruthyStr(rows[i].humor_type) THEN <<rows[i].humor_type[1]>>
                      ELSE <<>>]))
              row == [id |-> Len(style_guides) + 1, guide_type |-> "comprehensive",
                      content |-> styleGuide, meme_count |-> Len(rows),
                      topics |-> sortedTopics, humor_patterns |-> sortedHumor,
                      created_at |-> clock + 1]
              Reply(r, log, failure) ==
                  resp' = r /\ calls' = log /\ failed' = failure /\ UNCHANGED style_guides
          IN  IF fault.step = "memes" /\ fault.kind = "throw"
              THEN Reply(caught, <<>>, fault)
              ELSE IF fault.step = "memes" \/ rows = <<>>
              THEN Reply(StyleFailure(400,
                             "No analyzed memes found. Analyze some memes first."),
                         <<>>, IF fault.step = "memes" THEN fault ELSE NoFault)
              ELSE IF fault.step = "select"
              THEN Reply(caught, call, fault)
              ELSE IF fault.step = "insert" /\ fault.at = 1
              THEN Reply(IF fault.kind = "throw" THEN caught
                         ELSE Unsaved(styleGuide),
                         call, fault)
              ELSE /\ calls' = call
                   /\ failed' = NoFault
                   /\ style_guides' = InsertGuide(style_guides, row)
                   /\ resp' = Saved(row, Len(rows))

\* The guide types a read may name.
GuideTypes == {"comprehensive", "brief"}

\* The latest row of a guide type: .eq("guide_type", guideType)
\* .order("created_at", {ascending: false}).limit(1).single(), None when the
\* type has no row (the store then reports PGRST116).
LatestGuide(table, guideType) ==
    LET of == {i \in 1..Len(table) : table[i].guide_type = guideType}
    IN  IF of = {} THEN None
        ELSE Some(table[CHOOSE i \in of :
                            \A j \in of : table[j].created_at <= table[i].created_at])

\* GET of src/app/api/style-guide/route.ts.
StyleGuideGET ==
    /\ resp = NoResp
    /\ clock' = clock + 1
    /\ UNCHANGED <<memes, generated_memes, style_guides, topicMap, inflight, env, session, request,
                 returned>>
    /\ calls' = <<>>
    /\ \E guideType \in GuideTypes, fault \in Faults :
          LET guide == LatestGuide(style_guides, guideType)
              failure == [route |-> "style-guide-get", status |-> 500, success |-> FALSE,
                          error |-> "Failed to fetch style guide"]
          IN  IF fault.step = "guide"
              THEN resp' = failure /\ failed' = fault
              ELSE /\ failed' = NoFault
                   /\ resp' = IF guide = None
                              THEN [route |-> "style-guide-get", status |-> 200,
                                    success |-> TRUE, guide |-> None,
                                    message |->
                                        "No style guide generated yet. POST to generate one."]
                              ELSE [route |-> "style-guide-get", status |-> 200,
                                    success |-> TRUE, guide |-> guide]

(***************************************************************************)
(* The generation specification: one generate or style-guide request       *)
(* against each table of a bounded family.                                 *)
(***************************************************************************)
GenNow == 10 + 0

\* A post collected at time t, analyzed or not.
GenPost(id, t, text, images, analysis) ==
    LET row == [NewRow(id) EXCEPT !.url = Some(id), !.text = text, !.images = images,
                                  !.collected_at = Some(t)]
    IN  IF analysis = None THEN row
        ELSE Merge(AnalysisPayload(row, analysis[1], t + 1), row)

FirstAnalysis == CHOOSE a \in Analyses : a.image_description # None

SecondAnalysis == CHOOSE a \in Analyses : a.image_description = None

\* More posts than the generate handler fetches, collected one after the
\* other up to time 0: the oldest has an image, the others have none.
OldImageCorpus ==
    [i \in 1..OverLimit |->
        IF i = 1 THEN GenPost(1, 1 - OverLimit, Some("t1"), Some(<<"img1">>), None)
        ELSE GenPost(i, i - OverLimit, Some("t2"), None, None)]

\* Posts tables: empty; without images; with a catalog of one, of three and
\* of four images; with one image too old to be fetched.  The catalog of
\* three lists the most recent post first.
GenCorpora ==
    {<<>>,
     OldImageCorpus,
     <<GenPost(1, 1, Some("t1"), Some(<<>>), Some(SecondAnalysis)),
       GenPost(2, 2, Some("t2"), None, None)>>,
     <<GenPost(1, 1, Some("t1"), Some(<<"img1">>), None)>>,
     <<GenPost(1, 1, Some("t1"), Some(<<"img3">>), Some(SecondAnalysis)),
       GenPost(2, 2, None, Some(<<>>), Some(SecondAnalysis)),
       GenPost(3, 3, Some("t3"), Some(<<"img1", "img2">>), Some(FirstAnalysis))>>,
     <<GenPost(1, 2, None, Some(<<"img1", "img2">>), None),
       GenPost(2, 1, Some("t2"), Some(<<"img3", "img4">>), Some(FirstAnalysis))>>}

\* A row stored by an earlier request.
EarlierMeme ==
    [id |-> 1, topic |-> "crypto", style |-> "ironic", format |-> "text-only",
     text_content |-> <<"w0">>, reference_meme_ids |-> <<>>, image_url |-> None,
     created_at |-> 0]

EarlierGuide ==
    [id |-> 1, guide_type |-> "comprehensive", content |-> "guide0", meme_count |-> 1,
     topics |-> <<TopicAI>>, humor_patterns |-> <<"ironic">>, created_at |-> 0]

InitGen ==
    /\ memes \in GenCorpora
    /\ \E earlier \in BOOLEAN :
          /\ generated_memes = IF earlier THEN <<EarlierMeme>> ELSE <<>>
          /\ style_guides = IF earlier THEN <<EarlierGuide>> ELSE <<>>
    /\ clock = GenNow
    /\ calls = <<>>
    /\ topicMap = <<>>
    /\ failed = NoFault
    /\ inflight = None
    /\ env = NoEnv
    /\ session = None
    /\ request = None
    /\ returned = NoneReturned
    /\ resp = NoResp

NextGen == GeneratePOST \/ StyleGuidePOST

SpecGen == InitGen /\ [][NextGen]_vars

(***************************************************************************)
(* The style-guide specification: up to MaxRequests style-guide requests,  *)
(* generations and reads in any order, one after the other.                *)
(***************************************************************************)
MaxRequests == 3

\* The handler has answered and the next request arrives.
AwaitRequest ==
    /\ resp # NoResp
    /\ clock < GenNow + MaxRequests
    /\ resp' = NoResp
    /\ calls' = <<>>
    /\ failed' = NoFault
    /\ UNCHANGED <<memes, generated_memes, style_guides, clock, topicMap, inflight, env, session,
                   request, returned>>

NextGuides == StyleGuidePOST \/ StyleGuideGET \/ AwaitRequest

SpecGuides == InitGen /\ [][NextGuides]_vars

(***************************************************************************)
(* Claims about generation.                                                *)
(***************************************************************************)
\* A generate request has been answered.
GenDone == resp.route = "generate"

\* The answer is a body with a success indicator.
Structured == "success" \in DOMAIN resp

\* The image-first flow ran to its end.
ImageFirstDone ==
    GenDone /\ Structured /\ resp.success /\ resp.approach = "image-first"

\* The request asked for the image-first flow: it has a topic and a format
\* other than text-only.
ImageRequest ==
    /\ request # None
    /\ request[1].topic \notin {None, Some("")}
    /\ request[1].format \notin {None, Some("text-only")}

\* C1: on the image-first path at most 3 images are selected and at most 3
\* items are returned, whatever count is requested and whatever the model
\* returns.
C1_ImagePathAtMostThree ==
    /\ GenDone =>
          \A i \in 1..Len(calls) :
              calls[i].purpose = "image-first" => calls[i].images <= 3
    /\ ImageFirstDone => resp.imagesUsed <= 3 /\ Len(resp.memes) <= 3

\* C2: image numbers that resolve to no catalog entry are dropped, and when
\* no number resolves the request fails with NoSuitableImages without the
\* text-generation call: that call is never issued for an empty set of
\* images and no image-first request succeeds with zero images used.
C2_UnresolvedSelectionFails ==
    /\ GenDone =>
          \A i \in 1..Len(calls) :
              calls[i].purpose = "image-first" => calls[i].images > 0
    /\ ImageFirstDone => resp.imagesUsed > 0

\* The answer is one of the four precondition failures.
PreconditionFailure ==
    /\ resp.route \in {"generate", "style-guide"}
    /\ Structured
    /\ resp.status = 400

NoSuitableImages ==
    PreconditionFailure /\ resp.error = "Could not find suitable images for this topic"

\* C3 as stated: a request that ends in MissingTopic, NoAnalyzedContent,
\* NoImagesAvailable or NoSuitableImages carries a message and has issued no
\* model call.
C3_NoModelCallBeforePreconditionFailure ==
    PreconditionFailure => ~resp.success /\ resp.error # "" /\ calls = <<>>

\* The rows this request added to a table.
NewRows(table) == {i \in 1..Len(table) : table[i].created_at = clock}

\* C3 as amended: a request that ends in MissingTopic, NoAnalyzedContent or
\* NoImagesAvailable carries a message, has issued no model call and has
\* written no row; one that ends in NoSuitableImages has issued the
\* image-selection call and no other.  The selection call is issued only
\* when some post has an image, the style-guide call only when some post is
\* analyzed.
C3_PreconditionFailuresShortCircuit ==
    /\ PreconditionFailure =>
          /\ ~resp.success
          /\ resp.error # ""
          /\ NewRows(generated_memes) = {} /\ NewRows(style_guides) = {}
          /\ IF NoSuitableImages
             THEN Len(calls) = 1 /\ calls[1].fn = "generateObject"
                                 /\ calls[1].purpose = "select"
             ELSE calls = <<>>
    /\ \A i \in 1..Len(calls) :
          /\ calls[i].purpose = "select" =>
                \E j \in 1..Len(memes) :
                    memes[j].images # None /\ memes[j].images[1] # <<>>
          /\ calls[i].purpose = "style-guide" =>
                \E j \in 1..Len(memes) : memes[j].analyzed_at # None

\* The selection call returned no image: the request failed after that one
\* call.
C3_Witness ==
    /\ NoSuitableImages
    /\ calls = <<SelectCall(3)>>
    /\ failed = NoFault
    /\ \E j \in 1..Len(memes) : memes[j].images = Some(<<>>)

\* C4: when the store write fails for one of the N items of a request, by
\* an error result or by an exception, the request still succeeds, returns
\* all N items and has written the other N-1.
C4_SaveFailureSparesOthers ==
    GenDone /\ failed.step = "insert" =>
        /\ Structured
        /\ resp.success
        /\ Len(resp.memes) >= failed.at
        /\ Cardinality(NewRows(generated_memes)) = Len(resp.memes) - 1

\* C5: every generate request answers with a structured body, and when a
\* read of the store or a model call failed the body says success false and
\* gives a reason, on the text-only path as well.
C5_FailuresAreStructured ==
    GenDone =>
        /\ Structured
        /\ failed.step \in {"memes", "guide", "select", "text"} =>
              ~resp.success /\ resp.error # ""

(***************************************************************************)
(* Claims about the style guide.                                           *)
(***************************************************************************)
\* A style-guide generation has been answered.
StyleDone == resp.route = "style-guide"

\* The analyzed posts of the store.
AnalyzedPosts == {j \in 1..Len(memes) : memes[j].analyzed_at # None}

NoAnalyzedContent ==
    /\ StyleDone
    /\ resp.status = 400
    /\ ~resp.success
    /\ resp.error = "No analyzed memes found. Analyze some memes first."

\* C11: a style-guide generation over a store without analyzed posts fails,
\* issues no model call and inserts no style-guide row; unless the read of
\* the store itself threw, the failure is NoAnalyzedContent.
C11_NoAnalyzedContentShortCircuits ==
    StyleDone /\ AnalyzedPosts = {} =>
        /\ ~resp.success
        /\ calls = <<>>
        /\ NewRows(style_guides) = {}
        /\ failed.kind # "throw" => NoAnalyzedContent

\* The store holds posts, none of them analyzed, and the generation failed
\* with NoAnalyzedContent.
C11_Witness ==
    /\ NoAnalyzedContent
    /\ memes # <<>>
    /\ AnalyzedPosts = {}
    /\ failed = NoFault
    /\ calls = <<>>

C13_SuccessCarriesGuideCountAndFlag ==
    StyleDone /\ resp.success => {"guide", "memeCount", "saved"} \subseteq DOMAIN resp

\* C14: style guides are append-only.  Every step of a style-guide request
\* leaves the rows stored before as they are; it adds nothing, or it adds one
\* row at the end, whose meme_count is the number of analyzed posts, and
\* that is the step of a generation answering that the guide was saved.
C14_GuidesAppendOnly ==
    [][LET saved == /\ resp'.route = "style-guide"
                    /\ resp'.success
                    /\ "memeCount" \in DOMAIN resp'
       IN  /\ Len(style_guides') >= Len(style_guides)
           /\ SubSeq(style_guides', 1, Len(style_guides)) = style_guides
           /\ Len(style_guides') = Len(style_guides) + (IF saved THEN 1 ELSE 0)
           /\ saved =>
                 /\ style_guides'[Len(style_guides')].meme_count =
                        Cardinality(AnalyzedPosts)
                 /\ resp'.guide = style_guides'[Len(style_guides')]
                 /\ resp'.memeCount = Cardinality(AnalyzedPosts)]_vars

\* Two generations were saved on top of an earlier guide, which is still
\* the first row, and a read returned the latest.
C14_Witness ==
    /\ Len(style_guides) = 3
    /\ style_guides[1] = EarlierGuide
    /\ style_guides[2].created_at < style_guides[3].created_at
    /\ style_guides[3].meme_count = 3
    /\ resp.route = "style-guide-get"
    /\ resp.guide = Some(style_guides[3])

(***************************************************************************)
(* Claims about the image precondition and about parsing.                  *)
(***************************************************************************)
\* The posts among the 50 most recently collected: those with fewer than 50
\* posts collected after them.
MostRecent ==
    {j \in 1..Len(memes) :
        Cardinality({k \in 1..Len(memes) :
                        memes[k].collected_at[1] > memes[j].collected_at[1]}) < 50}

WithImage == {j \in 1..Len(memes) : memes[j].images # None /\ memes[j].images[1] # <<>>}

NoImagesAvailable ==
    /\ GenDone
    /\ resp.status = 400
    /\ ~resp.success
    /\ resp.error = "No images in collection. Save some memes with images first!"

\* C15: an image-first request when none of the 50 most recently collected
\* posts has an image fails, issues neither model call and writes no
\* generated-meme row; unless the read of the store itself threw, the
\* failure is NoImagesAvailable.
C15_NoImagesShortCircuits ==
    GenDone /\ ImageRequest /\ MostRecent \cap WithImage = {} =>
        /\ ~resp.success
        /\ calls = <<>>
        /\ returned = NoneReturned
        /\ NewRows(generated_memes) = {}
        /\ failed.kind # "throw" => NoImagesAvailable

\* The only image of the store is on a post older than the 50 most recent,
\* and the request failed with NoImagesAvailable.
C15_Witness ==
    /\ NoImagesAvailable
    /\ ImageRequest
    /\ WithImage # {}
    /\ MostRecent \cap WithImage = {}
    /\ failed = NoFault
    /\ calls = <<>>

\* The text-only flow ran to its end.
TextOnlyDone ==
    GenDone /\ Structured /\ resp.success /\ resp.approach = "text-only"

\* The blocks of the generated text that are not blank, in response order.
Blocks ==
    SelectSeq(split(returned.generatedText[1], "---"),
              LAMBDA b : \E i \in 1..Len(b) : b[i] \notin WhiteSpace)

\* A run of digits that starts at position i of the block is followed by ".".
MarkerAt(b, i) ==
    /\ b[i] \in Digit
    /\ LET d == RunEnd(b, i, Digit) IN d <= Len(b) /\ b[d] = "."

\* The block begins, after white space, with a marker "N." that something
\* follows.
LeadingMarker(b) ==
    LET t == trimStart(b)
        d == RunEnd(t, 1, Digit)
    IN  d > 1 /\ d < Len(t) /\ t[d] = "."

\* What follows the leading marker, trimmed.
AfterMarker(b) ==
    LET t == trimStart(b)
    IN  trim(SubSeq(t, RunEnd(t, 1, Digit) + 1, Len(t)))

\* The texts of the items returned.
ItemTexts == [i \in 1..Len(resp.memes) |-> resp.memes[i].text]

BeginsWithMarker(b) ==
    LET t == trimStart(b)
        d == RunEnd(t, 1, Digit)
    IN  d > 1 /\ d <= Len(t) /\ t[d] = "."

\* C17: on the text-only path a block that does not begin with a marker
\* yields the whole block trimmed as the text of an item, also when a digit
\* and a period occur later in the block.
C17_OnlyLeadingMarkerStripped ==
    TextOnlyDone =>
        \A i \in 1..Len(Blocks) :
            ~BeginsWithMarker(Blocks[i]) => trim(Blocks[i]) \in Range(ItemTexts)

\* The block holds the marker "TEXT:".
HasTextMarker(b) == \E i \in 1..Len(b) : b[i] = "TEXT:"

\* Everything after the first "TEXT:" of the block, trimmed.
AfterTextMarker(b) ==
    trim(SubSeq(b, Leftmost({i \in 1..Len(b) : b[i] = "TEXT:"}) + 1, Len(b)))

\* C18: on the image-first path the text of a block with a "TEXT:" marker is
\* everything after the marker up to the end of the block, trimmed, with
\* every line of a caption of several lines: when every block of a response
\* has the marker, the text of every item returned is that of one of the
\* blocks.
C18_TextRunsToEndOfBlock ==
    ImageFirstDone /\ (\A i \in 1..Len(Blocks) : HasTextMarker(Blocks[i])) =>
        \A k \in 1..Len(resp.memes) :
            \E i \in 1..Len(Blocks) : resp.memes[k].text = AfterTextMarker(Blocks[i])

\* The images selected in the request, in the order selected: the entries of
\* the catalog of the posts fetched that the selection names.
Manifest ==
    LET fetched == SelectSeq(slice(OrderByCollected(memes, Len(memes)), 50),
                             LAMBDA m : m.images # None /\ m.images[1] # <<>>)
    IN  Resolve(imagesCatalog(fetched, Len(fetched)), returned.selection[1])

\* The block is "Image n:" followed by a caption, without "TEXT:".
LabelledOnly(b) ==
    /\ ~HasTextMarker(b)
    /\ Len(b) >= 5
    /\ b[1] = "Image" /\ b[2] = " " /\ b[3] \in Digit /\ b[4] = ":"
    /\ trim(SubSeq(b, 5, Len(b))) # <<>>

\* C19: on the image-first path a block "Image n: caption" without "TEXT:",
\* with n a position of the manifest of selected images, yields an item
\* whose text is the block with the label stripped, trimmed, and whose image
\* is the one at position n of the manifest.
C19_LabelResolvesByPosition ==
    ImageFirstDone =>
        \A i \in 1..Len(Blocks) :
            LET b == Blocks[i]
                n == DigitVal(b[3])
            IN  LabelledOnly(b) /\ n \in 1..Len(Manifest) =>
                    \E k \in 1..Len(resp.memes) :
                        /\ resp.memes[k].text = trim(SubSeq(b, 5, Len(b)))
                        /\ resp.memes[k].image_url = Some(Manifest[n].url)
                        /\ resp.memes[k].image_suggestion = Some(n)

\* The selection named the catalog images 2 and 1, in that order: the block
\* "Image 2: w1" was given the image at position 2, which is catalog image 1
\* and not catalog image 2.
C19_Witness ==
    /\ ImageFirstDone
    /\ returned.selection = Some(<<2, 9, 1>>)
    /\ Len(Manifest) = 2
    /\ Manifest[2].index = 1
    /\ Manifest[1].index = 2
    /\ Manifest[1].url # Manifest[2].url
    /\ Blocks # <<>> /\ resp.memes # <<>>
    /\ LabelledOnly(Blocks[1])
    /\ Blocks[1][3] = "2"
    /\ resp.memes[1] = [text |-> <<"w1">>, image_suggestion |-> Some(2),
                        image_url |-> Some(Manifest[2].url)]

\* C20: every item the image-first path returns has a non-empty text and the
\* URL of one of the images selected in the request; there are at most as
\* many items as non-blank blocks, and a response whose blocks give fewer
\* items, or none, is still answered as a success.
C20_ItemsHaveTextAndSelectedImage ==
    /\ ImageFirstDone =>
          /\ Len(resp.memes) <= Len(Blocks)
          /\ \A k \in 1..Len(resp.memes) :
                /\ resp.memes[k].text # <<>>
                /\ resp.memes[k].image_url \notin {None, Some("")}
                /\ \E n \in 1..Len(Manifest) :
                      resp.memes[k].image_url = Some(Manifest[n].url)
    /\ GenDone /\ ImageRequest /\ returned.generatedText # None /\ failed.kind # "throw"
          => ImageFirstDone

\* Of three blocks one had no usable text and one no image: one item came
\* back, and the request succeeded.
C20_Witness ==
    /\ ImageFirstDone
    /\ failed = NoFault
    /\ Len(Blocks) = 3
    /\ Len(resp.memes) = 1
    /\ Len(Manifest) = 1
    /\ \E i \in 1..3 : HasTextMarker(Blocks[i]) /\ AfterTextMarker(Blocks[i]) = <<>>

(***************************************************************************)
(* Claims about the rows of generated_memes.                               *)
(***************************************************************************)
(***************************************************************************)
(* The password gate: src/auth.ts and the middleware.  A path is the       *)
(* sequence of its lexical units, so that startsWith is a prefix of units. *)
(***************************************************************************)
\* pathname.startsWith(route)
startsWith(pathname, route) ==
    Len(route) <= Len(pathname) /\ SubSeq(pathname, 1, Len(route)) = route

LoginRoute == <<"/", "login">>
AuthRoute == <<"/", "api", "/", "auth">>
MemesRoute == <<"/", "api", "/", "memes">>
ApiPrefix == <<"/", "api", "/">>

\* publicRoutes of src/middleware.ts, and of the middleware with the
\* preflight branch.
publicRoutes == {LoginRoute, AuthRoute}
publicRoutesWithMemes == {LoginRoute, AuthRoute, MemesRoute}

\* The paths requested: pages, api routes, paths that only begin like a
\* public route, and paths the matcher leaves out.
Paths ==
    {<<"/">>, <<"/", "dashboard">>, LoginRoute, LoginRoute \o <<"x">>,
     <<"/", "api">>, <<"/", "api", "x">>, ApiPrefix,
     AuthRoute \o <<"/", "session">>, AuthRoute \o <<"x">>,
     MemesRoute, MemesRoute \o <<"/", "1">>, MemesRoute \o <<"x">>,
     ApiPrefix \o <<"analyze">>, ApiPrefix \o <<"generate">>,
     ApiPrefix \o <<"style-guide">>,
     <<"/", "_next/static", "/", "a.js">>, <<"/", "_next/image">>,
     <<"/", "favicon.ico">>, <<"/", "x", "/", "favicon.ico">>}

Methods == {"GET", "POST", "OPTIONS"}

\* config.matcher: "/((?!_next/static|_next/image|favicon.ico).*)".  The
\* middleware runs on a path unless what follows the first "/" begins with
\* one of the three.
matcher(pathname) ==
    /\ pathname # <<>> /\ pathname[1] = "/"
    /\ ~(Len(pathname) >= 2
          /\ pathname[2] \in {"_next/static", "_next/image", "favicon.ico"})

\* The deployments: each password set to a value, set to the empty string
\* or not set.
Envs ==
    {[AUTH_PASSWORD |-> a, AUTH_PASSWORD_2 |-> b] :
        a \in {None, Some(""), Some("p1")}, b \in {None, Some("p2")}}

\* [process.env.AUTH_PASSWORD, process.env.AUTH_PASSWORD_2].filter(Boolean)
validPasswords(e) ==
    {o[1] : o \in {x \in {e.AUTH_PASSWORD, e.AUTH_PASSWORD_2} : TruthyStr(x)}}

\* What the login form, or any other client, submits.
Credentials ==
    {None} \cup {Some([password |-> p]) : p \in {None, Some(""), Some("p1"), Some("p2"),
                                                  Some("guess")}}

\* authorize of the Credentials provider: the user, or null.
authorize(credentials, e) ==
    IF /\ credentials # None
       /\ TruthyStr(credentials[1].password)
       /\ credentials[1].password[1] \in validPasswords(e)
    THEN Some([id |-> "1", name |-> "Admin", email |-> "admin@memegen.local"])
    ELSE None

\* A check that takes every request as authenticated.
isAuthenticatedAlways(auth) == TRUE

\* !!req.auth
isAuthenticated(auth) == auth # None

Unauthorized == [kind |-> "json", status |-> 401, error |-> "Unauthorized", cors |-> FALSE]
Preflight == [kind |-> "json", status |-> 200, error |-> "", cors |-> TRUE]
RedirectToLogin == [kind |-> "redirect", location |-> LoginRoute]
PassedOn(cors) == [kind |-> "next", cors |-> cors]
NotRun == [kind |-> "unmatched"]

\* The body of the middleware, with its list of public routes and with or
\* without the branch for OPTIONS requests.
middlewareReply(pathname, method, auth, routes, preflight) ==
    IF preflight /\ method = "OPTIONS" /\ startsWith(pathname, ApiPrefix)
    THEN Preflight
    ELSE IF \E route \in routes : startsWith(pathname, route)
    THEN PassedOn(preflight /\ startsWith(pathname, ApiPrefix))
    ELSE IF ~isAuthenticated(auth)
    THEN (IF startsWith(pathname, ApiPrefix) THEN Unauthorized ELSE RedirectToLogin)
    ELSE PassedOn(startsWith(pathname, ApiPrefix))

\* A request arrives, with the session of the browser or with none; the
\* middleware runs when the matcher covers the path.
Arrives(routes, preflight) ==
    /\ \E pathname \in Paths, method \in Methods, auth \in {None, session} :
          resp' = [route |-> "middleware", path |-> pathname, method |-> method,
                   auth |-> auth, publicRoutes |-> routes,
                   reply |-> IF matcher(pathname)
                             THEN middlewareReply(pathname, method, auth, routes,
                                                  preflight)
                             ELSE NotRun]
    /\ UNCHANGED <<memes, generated_memes, style_guides, clock, calls, topicMap, failed,
                   inflight, env, session, request, returned>>

\* The default export of src/middleware.ts.
middleware == Arrives(publicRoutes, FALSE)

\* The default export of the middleware that answers preflight requests.
middlewareWithPreflight == Arrives(publicRoutesWithMemes, TRUE)

\* signIn("credentials", {password}) of the login page: authorize decides.
SignIn ==
    /\ \E credentials \in Credentials :
          LET user == authorize(credentials, env)
          IN  /\ session' = IF user # None THEN user ELSE session
              /\ resp' = [route |-> "signin", ok |-> user # None]
    /\ UNCHANGED <<memes, generated_memes, style_guides, clock, calls, topicMap, failed,
                   inflight, env, request, returned>>

\* signOut(), or the end of the session.
SignOut ==
    /\ session # None
    /\ session' = None
    /\ resp' = [route |-> "signout"]
    /\ UNCHANGED <<memes, generated_memes, style_guides, clock, calls, topicMap, failed,
                   inflight, env, request, returned>>

InitAuth ==
    /\ memes = <<>>
    /\ generated_memes = <<>>
    /\ style_guides = <<>>
    /\ clock = 0
    /\ calls = <<>>
    /\ topicMap = <<>>
    /\ failed = NoFault
    /\ inflight = None
    /\ env \in Envs
    /\ session = None
    /\ request = None
    /\ returned = NoneReturned
    /\ resp = NoResp

NextAuth ==
    \/ middleware
    \/ middlewareWithPreflight
    \/ SignIn
    \/ SignOut

SpecAuth == InitAuth /\ [][NextAuth]_vars

\* C21: the savedCount of a successful generate response, on either path,
\* is the number of generated_memes rows the request inserted.
C21_SavedCountIsRowsInserted ==
    GenDone /\ Structured /\ resp.success =>
        resp.savedCount = Cardinality(NewRows(generated_memes))

(***************************************************************************)
(* Claims about batch analysis.                                            *)
(***************************************************************************)
\* The step is a batch analysis that ran its loop.
AnalyzedBatch == resp'.route = "analyze" /\ resp'.status = 200

\* The position in the table of the post with the id.
RowOfId(table, id) == CHOOSE i \in 1..Len(table) : table[i].id = Some(id)

\* The columns of the row are those the analysis gives, written at time t.
HoldsAnalysis(row, analysis, t) ==
    /\ row.analyzed_at = Some(t)
    /\ row.topics = Some(analysis.topics)
    /\ row.humor_type = Some(analysis.humor_type)
    /\ row.format = Some(analysis.format)
    /\ row.template = analysis.template
    /\ row.joke_structure = Some(analysis.joke_structure)
    /\ row.tone = Some(analysis.tone)
    /\ row.image_analysis = analysis.image_description

\* C22: in a batch analysis every stored post of the batch gets its own
\* result and its own model call.  A post whose result is a success holds
\* the analysis reported for it; a post whose result is a failure, by the
\* model call or by the update, has its record as before, and so has every
\* post outside the batch.
C22_AnalysisFailureIsPerPost ==
    [][AnalyzedBatch =>
          LET res == resp'.results
              batch == {i \in 1..Len(memes) : memes[i].id[1] \in Range(resp'.memeIds)}
          IN  /\ Len(memes') = Len(memes)
              /\ Len(res) = Cardinality(batch)
              /\ Len(calls') = Cardinality(batch)
              /\ \A i \in batch :
                    \E k \in 1..Len(res) :
                        /\ res[k].id = memes[i].id[1]
                        /\ \A l \in 1..Len(res) : res[l].id = res[k].id => l = k
                        /\ IF res[k].success
                           THEN HoldsAnalysis(memes'[i], res[k].analysis, clock')
                           ELSE memes'[i] = memes[i]
              /\ \A i \in (1..Len(memes)) \ batch : memes'[i] = memes[i]]_vars

\* Of a batch of two posts the first failed and is still unanalyzed, the
\* second was analyzed.
C22_Witness ==
    /\ resp.route = "analyze" /\ resp.status = 200
    /\ Len(resp.results) = 2
    /\ ~resp.results[1].success
    /\ resp.results[2].success
    /\ memes[RowOfId(memes, resp.results[1].id)].analyzed_at = None
    /\ memes[RowOfId(memes, resp.results[2].id)].analyzed_at = Some(clock)

\* C23: the response of a batch analysis holds exactly one result for every
\* id of the request's list, also for an id that no stored post has.
C23_OneResultPerRequestedId ==
    resp.route = "analyze" /\ resp.status = 200 =>
        \A id \in Range(resp.memeIds) :
            Cardinality({k \in 1..Len(resp.results) : resp.results[k].id = id}) = 1

\* C24: the analysis columns of a post are written once: no step changes
\* any of them on a post that is analyzed.
C24_AnalysisWrittenOnce ==
    [][\A i \in 1..Len(memes) :
          memes[i].analyzed_at # None =>
              \A c \in AnalysisColumns : memes'[i][c] = memes[i][c]]_vars

ClassificationColumns == {"humor_type", "format", "tone", "joke_structure", "topics"}

\* C28: in every state of the store a post has an analysis timestamp exactly
\* when its classification columns hold a value, and they hold a value all
\* together or not at all.
C28_AnalyzedIffClassified ==
    \A i \in 1..Len(memes) :
        /\ memes[i].analyzed_at # None <=>
               \A c \in ClassificationColumns : memes[i][c] # None
        /\ memes[i].analyzed_at = None <=>
               \A c \in ClassificationColumns : memes[i][c] = None

\* Of two posts one is analyzed and classified; the other, not analyzed or
\* analyzed without success, holds no classification.
C28_Witness ==
    /\ Len(memes) = 2
    /\ \E i, j \in 1..2 :
          /\ memes[i].analyzed_at # None
          /\ memes[i].humor_type # None /\ memes[i].topics # None
          /\ memes[j].analyzed_at = None
          /\ memes[j].humor_type = None /\ memes[j].topics = None
    /\ resp.route = "analyze"

\* The step is an ingestion that wrote: the analysis in progress stands still.
IngestWrote ==
    inflight' = inflight /\ resp'.route = "memes" /\ resp'.status = 200 /\ clock' # clock

\* The step is one pass of the analysis loop.
AnalysisPassed ==
    inflight # None /\ inflight' # None /\ inflight' # inflight

\* The five counters of the row are those one request body gives.
CountersOf(row, body) ==
    \A c \in CounterColumns : row[c] = Some(safeMetric(body[c]))

Reingested ==
    /\ resp'.route \in {"memes", "collect"} /\ resp'.status = 200 /\ clock' # clock
    /\ \E i \in 1..Len(memes) : memes[i].url = resp'.body.url

\* The position of the record the step ingested again.
Restored == CHOOSE i \in 1..Len(memes) : memes[i].url = resp'.body.url

\* The columns the handler of the step writes, with the values it writes.
WrittenBy ==
    IF resp'.route = "memes" THEN IngestPayload(resp'.body, clock')
    ELSE CollectPayload(resp'.body, clock')

LabelOf(b) ==
    IF ImageLabelStarts(b) = {} THEN None ELSE Some(parseInt(matchImageNum(b)[1]))

\* The block's label names a position of the manifest.
Resolvable(b) == LabelOf(b) # None /\ LabelOf(b)[1] \in 1..Len(Manifest)

\* The text the parser takes from the block.
TextOf(b) ==
    IF matchText(b) # None THEN trim(matchText(b)[1]) ELSE trim(replaceImageLabel(b))

\* The ordinals of the blocks that have a text and an image, by label or by
\* their own ordinal.
Imaged ==
    {i \in 1..Len(Blocks) :
        TextOf(Blocks[i]) # <<>> /\ (Resolvable(Blocks[i]) \/ i <= Len(Manifest))}

\* C27: on the image-first path a block without a label, or whose label
\* names no position of the manifest, is given the image at the block's own
\* ordinal among the non-blank blocks; a block of this kind whose ordinal is
\* past the end of the manifest gives no item.  The items are those of the
\* blocks that have a text and an image, in response order.
C27_FallbackByBlockOrdinal ==
    ImageFirstDone =>
        /\ Len(resp.memes) = Cardinality(Imaged)
        /\ \A i \in Imaged :
              LET item == resp.memes[Cardinality({j \in Imaged : j <= i})]
              IN  /\ item.text = TextOf(Blocks[i])
                  /\ ~Resolvable(Blocks[i]) =>
                        /\ item.image_url = Some(Manifest[i].url)
                        /\ item.image_suggestion = Some(i)

\* Three captions without a label came back for a manifest of two images:
\* the first two were given the images at their ordinals, the third none.
C27_Witness ==
    /\ ImageFirstDone
    /\ Len(Blocks) = 3
    /\ \A i \in 1..Len(Blocks) : LabelOf(Blocks[i]) = None /\ TextOf(Blocks[i]) # <<>>
    /\ Len(Manifest) = 2
    /\ Manifest[1].url # Manifest[2].url
    /\ Len(resp.memes) = 2
    /\ resp.memes[2].image_url = Some(Manifest[2].url)
    /\ resp.memes[2].image_suggestion = Some(2)

\* The step is a generate request that succeeded with no call failing.
Generated ==
    /\ resp = NoResp
    /\ resp'.route = "generate" /\ "success" \in DOMAIN resp' /\ resp'.success
    /\ failed' = NoFault

\* C29: a generate request that succeeds appends one generated_memes row for
\* each item it returns, in order, with the request's topic and style, the
\* format of the path, the item's text and the item's image URL (none on
\* the text-only path), and leaves the rows stored before as they were.
C29_ItemsPersistedWithImage ==
    [][Generated =>
          LET n == Len(generated_memes)
              req == request'[1]
          IN  /\ Len(generated_memes') = n + Len(resp'.memes)
              /\ SubSeq(generated_memes', 1, n) = generated_memes
              /\ \A k \in 1..Len(resp'.memes) :
                    LET row == generated_memes'[n + k]
                        item == resp'.memes[k]
                    IN  /\ row.topic = req.topic[1]
                        /\ row.style = OrElse(req.style, "ironic")
                        /\ row.format = IF resp'.approach = "text-only" THEN "text-only"
                                        ELSE req.format[1]
                        /\ row.text_content = item.text
                        /\ row.image_url = item.image_url]_vars

\* The request carried no session and its path begins with no public route.
Gated ==
    /\ resp.route = "middleware"
    /\ resp.auth = None
    /\ ~\E route \in resp.publicRoutes : startsWith(resp.path, route)

\* The reply to a gated request is the middleware's own: under /api/ the 401,
\* or the preflight reply to an OPTIONS request, and the redirect to /login
\* on every other path.
Refused ==
    IF startsWith(resp.path, ApiPrefix)
    THEN resp.reply = Unauthorized \/ (resp.method = "OPTIONS" /\ resp.reply = Preflight)
    ELSE resp.reply = RedirectToLogin

\* C30 as stated: every request without a session on a path outside the
\* public prefixes is refused by the middleware.
C30_UnauthenticatedNeverPassed ==
    /\ Gated => Refused
    /\ resp.route = "middleware" /\ resp.reply.kind = "next" =>
          resp.auth # None \/ \E route \in resp.publicRoutes : startsWith(resp.path, route)

\* C30 amended: a request without a session on a path outside the public
\* prefixes is refused by the middleware when the matcher covers its path;
\* on a path the matcher leaves out the middleware does not run.  The
\* middleware passes on only requests with a session or on a public prefix,
\* and a session exists only where a password is configured.
C30_UnauthenticatedRefusedWhereMatched ==
    /\ Gated /\ matcher(resp.path) => Refused
    /\ resp.route = "middleware" /\ ~matcher(resp.path) => resp.reply = NotRun
    /\ resp.route = "middleware" /\ resp.reply.kind = "next" =>
          resp.auth # None \/ \E route \in resp.publicRoutes : startsWith(resp.path, route)
    /\ session # None => validPasswords(env) # {}

\* While the browser is signed in, a preflight request without the session
\* to /api/analyze was answered by the middleware.
C30_Witness ==
    /\ Gated
    /\ session # None
    /\ resp.path = ApiPrefix \o <<"analyze">>
    /\ resp.method = "OPTIONS"
    /\ resp.reply = Preflight

=============================================================================
